---- MODULE Spec2Model ----
(***************************************************************************)
(* Analysis scripts of apple-silicon-bio-bench: the baseline-joining       *)
(* functions, the record loaders and the command-line entry points.        *)
(* One run of one script is one behaviour: Init picks the script and its   *)
(* input, the actions are the script's functions.                          *)
(***************************************************************************)
EXTENDS Integers, Sequences, FiniteSets, TLC

VARIABLES
    script,                \* the script (or function under test) of this run
    pc,                    \* its position
    argc,                  \* number of positional arguments, len(sys.argv) - 1
    path_exists,           \* path_exists[i]: does the i-th input path exist
    exit_status,           \* <<>> while running, else <<status>> of the process
    stdout,                \* kinds of the messages printed on stdout
    stderr,                \* kinds of the messages printed on stderr
    raised,                \* the uncaught exception, "none" when there is none
    data_read,             \* input paths whose content has been read
    outputs_written,       \* output paths created or modified
    experiments,           \* calculate_speedups: the caller's list of dicts
    mac_csv,               \* compare_mac_graviton: rows of the Mac CSV
    graviton_csv,          \* compare_mac_graviton: rows of the Graviton CSV
    mac_data,              \* compare_mac_graviton.main: loaded Mac dicts
    graviton_data,         \* compare_mac_graviton.main: loaded Graviton dicts
    comparison,            \* compare_platforms: the returned list
    enriched_experiments,  \* calculate_energy_efficiency: the caller's list of dicts
    result,                \* calculate_energy_efficiency: the returned list, as
                           \* references (indices) to the caller's dicts
    raised_args,           \* what the uncaught exception's message identifies
    rows,                  \* record loaders: the data rows of the CSV file
    loaded,                \* record loaders: the list returned to the caller
    lines,                 \* analyze_composition: the data lines of the CSV file
    df,                    \* analyze_composition.load_data: the returned frame
    log_lines,             \* parse_powermetrics_log: the lines of the log file
    samples,               \* parse_powermetrics_log: the returned list
    output_dir_exists,     \* does the directory of the output path exist
    comparison_csv,        \* the written comparison CSV: header and rows, None if absent
    output_parent_exists,  \* does the parent (results/) of the output directory exist
    power_csv,             \* extract_mac_baseline: rows of the power pilot CSV
    baseline_csv,          \* the written mac_baseline.csv: header and rows, None if absent
    parallel_df,           \* analyze_parallel: the rows of the frame, in file order
    summary_best,          \* analyze_parallel: label of the best row of each operation
    rule2_best,            \* analyze_parallel, Rule 2: label of the best row of each scale and operation
    rule3,                 \* analyze_parallel, Rule 3: best assignment of each operation
    regression_csv,        \* complexity_regression: the rows of n5_complexity_data.csv
    df_filtered,           \* complexity_regression.load_data: the filtered frame
    models,                \* build_models: the dict, as (name, R2, cross-val mean) in insertion order
    best_model_name,       \* build_models: the name printed as best, None before
    prediction_model,      \* prediction_analysis: the name of the model it predicts with
    speedup_matrices,      \* analyze_parallel: the columns and cells written to speedup_matrices.txt
    amx_df,                \* analyze_amx: the rows of amx_clean.csv
    amx_curves,            \* analyze_amx: the x values of the speedup curves
    files0,                \* the files before the first of the runs
    files,                 \* the file system: the lines of every file, None for a missing one
    procs,                 \* the runs of scripts under way: script, position, what was loaded
    composition_frame,     \* analyze_composition.calculate_speedups: the rows of the frame it is given
    speedups,              \* analyze_composition.calculate_speedups: the rows of the frame it returns
    enriched_csv,          \* the enriched power CSV: header and rows, None if absent
    power_experiments,     \* generate_power_findings: the list load_enriched_csv returned
    power_findings,        \* the FINDINGS.md of generate_power_findings: what was written, None if absent
    scale_nums_bound,      \* analyze_amx figure 3: what the name scale_nums is bound to
    parallel_amx_lines     \* analyze_amx figure 3: the x values plotted, one line per operation

vars == <<script, pc, argc, path_exists, exit_status, stdout, stderr, raised,
          data_read, outputs_written, experiments, mac_csv, graviton_csv,
          mac_data, graviton_data, comparison, enriched_experiments, result,
          raised_args, rows, loaded, lines, df,
          log_lines, samples,
          output_dir_exists, comparison_csv,
          output_parent_exists,
          power_csv, baseline_csv,
          parallel_df, summary_best, rule2_best, rule3,
          regression_csv, df_filtered, models, best_model_name, prediction_model,
          speedup_matrices, amx_df, amx_curves,
          files0, files, procs,
          composition_frame, speedups,
          enriched_csv, power_experiments, power_findings,
          scale_nums_bound, parallel_amx_lines>>

cli_vars == <<argc, path_exists>>
compare_vars == <<mac_csv, graviton_csv, mac_data, graviton_data, comparison>>
energy_vars == <<enriched_experiments, result>>
loader_vars == <<raised_args, rows, loaded>>
composition_vars == <<lines, df>>
powermetrics_vars == <<log_lines, samples>>
output_vars == <<output_dir_exists, comparison_csv>>
tree_vars == <<output_parent_exists>>
extract_vars == <<power_csv, baseline_csv>>
parallel_vars == <<parallel_df, summary_best, rule2_best, rule3>>
regression_vars == <<regression_csv, df_filtered, models, best_model_name, prediction_model>>
curves_vars == <<speedup_matrices, amx_df, amx_curves>>
pipeline_vars == <<files0, files, procs>>
speedups_vars == <<composition_frame, speedups>>
power_vars == <<enriched_csv, power_experiments, power_findings>>
scaling_vars == <<scale_nums_bound, parallel_amx_lines>>

----------------------------------------------------------------------------
(* Bounds of the model *)

MaxExperiments == 3        \* records given to calculate_speedups alone
MaxMac == 2                \* rows of the Mac CSV
MaxGraviton == 2           \* rows of the Graviton CSV
MaxCompareRows == 4        \* rows of the Mac and the Graviton CSV together
MaxArgc == 3               \* positional arguments tried
MaxEnriched == 3           \* records given to calculate_energy_efficiency
MaxRows == 2               \* data rows of a CSV file given to a record loader
MaxLines == 2              \* data lines of the composition CSV file
MaxLogLines == 3           \* lines of the powermetrics log
MaxUnwritable == 1         \* rows of each CSV when the output directory is missing
MaxPilot == 2              \* rows of the power pilot CSV given to extract_mac_baseline
MaxParallelRows == 3       \* rows of the frame of analyze_parallel
MaxRegressionRows == 10    \* rows of the complexity data file
MaxOddRows == 1            \* rows of it that are filtered out or have an unknown scale
MaxAmxRows == 2            \* rows of amx_clean.csv
MaxPipelineRows == 2       \* rows of the power pilot CSV the runs of scripts start from
MaxJoinMac == 2            \* records of the Mac list given to compare_platforms
MaxJoinGraviton == 2       \* records of the Graviton list given to compare_platforms
MaxCompositionRows == 4    \* rows of the frame after the optional complete group
MaxPowerRows == 3          \* records or file rows given to the power scripts
MaxScalingRows == 3        \* rows of amx_clean.csv beside the VeryLarge rows of figure 2
MaxExtractRows == 3        \* rows of the pilot CSV given to extract_mac_baseline alone

SeqsUpTo(S, n) == UNION {[1..k -> S] : k \in 0..n}

Max(S) == CHOOSE x \in S : \A y \in S : y <= x
Min(S) == CHOOSE x \in S : \A y \in S : x <= y

----------------------------------------------------------------------------
(* Python floats as exact rationals <<numerator, denominator>>, reduced,   *)
(* denominator > 0.  Fault stands for the ZeroDivisionError that a float   *)
(* division by zero raises.                                                *)

Abs(x) == IF x < 0 THEN -x ELSE x

RECURSIVE GCD(_, _)
GCD(a, b) == IF b = 0 THEN a ELSE GCD(b, a % b)

Frac(n, d) ==
    LET g == GCD(Abs(n), Abs(d))
        s == IF d < 0 THEN -1 ELSE 1
    IN  <<(s * n) \div g, (s * d) \div g>>

Fault == <<0, 0>>
Zero == <<0, 1>>
One == <<1, 1>>
Hundred == <<100, 1>>

IsFault(x) == x[2] = 0
Gt0(x) == x[2] > 0 /\ x[1] > 0

PyDiv(a, b) ==
    IF IsFault(a) \/ IsFault(b) \/ b[1] = 0 THEN Fault
    ELSE Frac(a[1] * b[2], a[2] * b[1])

PyMul(a, b) ==
    IF IsFault(a) \/ IsFault(b) THEN Fault ELSE Frac(a[1] * b[1], a[2] * b[2])

PySub(a, b) ==
    IF IsFault(a) \/ IsFault(b) THEN Fault
    ELSE Frac(a[1] * b[2] - b[1] * a[2], a[2] * b[2])

(* float(s) on the numeric strings of the model's CSV fields *)
FloatTable == [s \in {"0", "100", "400"} |->
                 CASE s = "0" -> 0 [] s = "100" -> 100 [] s = "400" -> 400]
PyFloat(s) == <<FloatTable[s], 1>>

(* d[k] = v on a dict *)
SetKey(d, k, v) == [x \in (DOMAIN d) \cup {k} |-> IF x = k THEN v ELSE d[x]]

----------------------------------------------------------------------------
(* compare_mac_graviton.py *)

Operations == {"A", "B"}
Configs == {"naive", "neon"}
Scales == {"Medium"}
ThroughputStrings == {"0", "100", "400"}

(* a row of csv.DictReader: every value is a string *)
CsvRows ==
    [operation : Operations, config : Configs, scale : Scales,
     num_sequences : {"10000"}, throughput_seqs_per_sec : ThroughputStrings]

(* the rows of the two files of one comparison run: one operation *)
CompareRows == {r \in CsvRows : r.operation = "A"}

(* the rows of the two lists given to compare_platforms alone: two groups, *)
(* one with two naive throughputs, one whose naive throughput is 0         *)
JoinRows ==
    {r \in CsvRows :
        <<r.operation, r.config, r.throughput_seqs_per_sec>> \in
            {<<"A", "naive", "100">>, <<"A", "naive", "400">>,
             <<"A", "neon", "400">>, <<"A", "neon", "0">>,
             <<"B", "naive", "0">>, <<"B", "neon", "100">>}}

load_csv(file_rows) == file_rows

GroupKey(exp) == <<exp.operation, exp.scale>>

NaiveIndices(exps, key) ==
    {i \in DOMAIN exps : exps[i].config = "naive" /\ GroupKey(exps[i]) = key}

(* the dict built by the first loop: a later naive row overwrites an earlier one *)
naive_throughput(exps) ==
    LET keys == {GroupKey(exps[i]) : i \in {j \in DOMAIN exps : exps[j].config = "naive"}}
    IN  [key \in keys |->
            PyFloat(exps[Max(NaiveIndices(exps, key))].throughput_seqs_per_sec)]

(* a mutant of speedup_vs_naive: the division without its guard *)
speedup_unguarded(current_tput, naive_tput) == PyDiv(current_tput, naive_tput)

speedup_vs_naive(current_tput, naive_tput) ==
    IF Gt0(naive_tput) THEN PyDiv(current_tput, naive_tput) ELSE Zero

(* the second loop: every dict of the list gets the key speedup_vs_naive *)
calculate_speedups(exps) ==
    LET nt == naive_throughput(exps)
    IN  [i \in DOMAIN exps |->
            LET key == GroupKey(exps[i])
            IN  IF key \in DOMAIN nt
                THEN SetKey(exps[i], "speedup_vs_naive",
                            speedup_vs_naive(PyFloat(exps[i].throughput_seqs_per_sec),
                                             nt[key]))
                ELSE SetKey(exps[i], "speedup_vs_naive", One)]

SpeedupFaults(exps) ==
    \E i \in DOMAIN exps : IsFault(exps[i].speedup_vs_naive)

JoinKey(exp) == <<exp.operation, exp.config, exp.scale>>

(* mac_lookup[key]: the last Mac dict with that key *)
mac_lookup(mac) ==
    [key \in {JoinKey(mac[i]) : i \in DOMAIN mac} |->
        mac[Max({i \in DOMAIN mac : JoinKey(mac[i]) = key})]]

portability_ratio(graviton_speedup, mac_speedup) ==
    IF Gt0(mac_speedup) THEN PyDiv(graviton_speedup, mac_speedup) ELSE Zero

speedup_variance_pct(graviton_speedup, mac_speedup) ==
    IF Gt0(mac_speedup)
    THEN PyMul(PyDiv(PySub(graviton_speedup, mac_speedup), mac_speedup), Hundred)
    ELSE Zero

graviton_vs_mac_throughput(g_tput, m_tput) ==
    IF Gt0(m_tput) THEN PyDiv(g_tput, m_tput) ELSE Zero

ComparisonRow(g_exp, m_exp) ==
    [operation |-> g_exp.operation,
     config |-> g_exp.config,
     scale |-> g_exp.scale,
     num_sequences |-> g_exp.num_sequences,
     mac_throughput |-> PyFloat(m_exp.throughput_seqs_per_sec),
     mac_speedup |-> m_exp.speedup_vs_naive,
     graviton_throughput |-> PyFloat(g_exp.throughput_seqs_per_sec),
     graviton_speedup |-> g_exp.speedup_vs_naive,
     portability_ratio |->
        portability_ratio(g_exp.speedup_vs_naive, m_exp.speedup_vs_naive),
     speedup_variance_pct |->
        speedup_variance_pct(g_exp.speedup_vs_naive, m_exp.speedup_vs_naive),
     graviton_vs_mac_throughput |->
        graviton_vs_mac_throughput(PyFloat(g_exp.throughput_seqs_per_sec),
                                   PyFloat(m_exp.throughput_seqs_per_sec))]

(* a mutant of JoinFrom: comparison.insert(0, ...) for comparison.append   *)
RECURSIVE JoinFromPrepending(_, _, _)
JoinFromPrepending(g, lookup, i) ==
    IF i > Len(g) THEN <<>>
    ELSE IF JoinKey(g[i]) \in DOMAIN lookup
         THEN JoinFromPrepending(g, lookup, i + 1)
              \o <<ComparisonRow(g[i], lookup[JoinKey(g[i])])>>
         ELSE JoinFromPrepending(g, lookup, i + 1)

(* "for g_exp in graviton_data: if key in mac_lookup: comparison.append"   *)
RECURSIVE JoinFrom(_, _, _)
JoinFrom(g, lookup, i) ==
    IF i > Len(g) THEN <<>>
    ELSE IF JoinKey(g[i]) \in DOMAIN lookup
         THEN <<ComparisonRow(g[i], lookup[JoinKey(g[i])])>> \o JoinFrom(g, lookup, i + 1)
         ELSE JoinFrom(g, lookup, i + 1)

(* compare_platforms(mac, graviton): the two lists as calculate_speedups   *)
(* leaves them, and the joined rows                                         *)
compare_platforms(mac, graviton) ==
    LET m == calculate_speedups(mac)
        g == calculate_speedups(graviton)
    IN  [mac_data |-> m, graviton_data |-> g,
         comparison |-> JoinFrom(g, mac_lookup(m), 1)]

ComparisonFaults(cmp) ==
    \E i \in DOMAIN cmp :
        \/ IsFault(cmp[i].portability_ratio)
        \/ IsFault(cmp[i].speedup_variance_pct)
        \/ IsFault(cmp[i].graviton_vs_mac_throughput)

----------------------------------------------------------------------------
(* parse_powermetrics.py: calculate_energy_efficiency *)

(* loop_duration_s, iterations and energy_per_seq_uwh of one experiment *)
Measurements ==
    { [loop_duration_s |-> <<2, 1>>, iterations |-> 1, energy_per_seq_uwh |-> <<3, 1>>],
      [loop_duration_s |-> <<4, 1>>, iterations |-> 1, energy_per_seq_uwh |-> <<3, 1>>],
      [loop_duration_s |-> <<0, 1>>, iterations |-> 1, energy_per_seq_uwh |-> <<0, 1>>],
      [loop_duration_s |-> <<2, 1>>, iterations |-> 0, energy_per_seq_uwh |-> <<3, 1>>] }

(* a dict as correlate_power_with_experiments returns it (the fields that  *)
(* calculate_energy_efficiency reads)                                      *)
EnrichedRows ==
    { [operation |-> o, config |-> c, scale |-> sc,
       loop_duration_s |-> m.loop_duration_s, iterations |-> m.iterations,
       energy_per_seq_uwh |-> m.energy_per_seq_uwh] :
      o \in Operations, c \in Configs, sc \in Scales, m \in Measurements }

(* groups: the keys in the order of their first record *)
RECURSIVE GroupOrderFrom(_, _, _)
GroupOrderFrom(exps, i, keys) ==
    IF i > Len(exps) THEN keys
    ELSE IF \E k \in DOMAIN keys : keys[k] = GroupKey(exps[i])
         THEN GroupOrderFrom(exps, i + 1, keys)
         ELSE GroupOrderFrom(exps, i + 1, Append(keys, GroupKey(exps[i])))

(* groups[key]: the records of the group, in input order *)
RECURSIVE GroupMembersFrom(_, _, _)
GroupMembersFrom(exps, key, i) ==
    IF i > Len(exps) THEN <<>>
    ELSE IF GroupKey(exps[i]) = key
         THEN <<i>> \o GroupMembersFrom(exps, key, i + 1)
         ELSE GroupMembersFrom(exps, key, i + 1)

(* next((e for e in exps if e['config'] == 'naive'), None); 0 is None *)
FirstNaive(exps, members) ==
    LET naive == {j \in DOMAIN members : exps[members[j]].config = "naive"}
    IN  IF naive = {} THEN 0 ELSE members[Min(naive)]

TimePerIteration(exp) == PyDiv(exp.loop_duration_s, <<exp.iterations, 1>>)

time_speedup(naive_time, exp_time) ==
    IF Gt0(exp_time) THEN PyDiv(naive_time, exp_time) ELSE Zero

energy_speedup(naive_energy, exp_energy) ==
    IF Gt0(exp_energy) THEN PyDiv(naive_energy, exp_energy) ELSE Zero

energy_efficiency(t_speedup, e_speedup) ==
    IF Gt0(e_speedup) THEN PyDiv(t_speedup, e_speedup) ELSE Zero

(* the body of "for exp in exps" for one record *)
WithEfficiency(exp, naive_time, naive_energy) ==
    LET exp_time == TimePerIteration(exp)
        naive == exp.config = "naive"
        ts == IF naive THEN One ELSE time_speedup(naive_time, exp_time)
        es == IF naive THEN One ELSE energy_speedup(naive_energy, exp.energy_per_seq_uwh)
        ee == IF naive THEN One ELSE energy_efficiency(ts, es)
    IN  SetKey(SetKey(SetKey(exp, "time_speedup_vs_naive", ts),
                      "energy_speedup_vs_naive", es),
               "energy_efficiency", ee)

(* st: [exps, result, stderr, raised], the function's progress *)
RECURSIVE EfficiencyMembers(_, _, _, _, _)
EfficiencyMembers(st, members, j, naive_time, naive_energy) ==
    IF j > Len(members) THEN st
    ELSE LET i == members[j]
         IN  IF IsFault(TimePerIteration(st.exps[i]))
             THEN [st EXCEPT !.raised = "ZeroDivisionError"]
             ELSE EfficiencyMembers(
                    [st EXCEPT !.exps[i] = WithEfficiency(st.exps[i], naive_time, naive_energy),
                               !.result = Append(st.result, i)],
                    members, j + 1, naive_time, naive_energy)

EfficiencyGroup(st, key) ==
    LET members == GroupMembersFrom(st.exps, key, 1)
        naive == FirstNaive(st.exps, members)
    IN  IF naive = 0
        THEN [st EXCEPT !.stderr = Append(st.stderr, "warning_no_naive_baseline"),
                        !.result = st.result \o members]
        ELSE IF IsFault(TimePerIteration(st.exps[naive]))
        THEN [st EXCEPT !.raised = "ZeroDivisionError"]
        ELSE EfficiencyMembers(st, members, 1, TimePerIteration(st.exps[naive]),
                               st.exps[naive].energy_per_seq_uwh)

RECURSIVE EfficiencyGroups(_, _, _)
EfficiencyGroups(st, keys, g) ==
    IF g > Len(keys) \/ st.raised # "none" THEN st
    ELSE EfficiencyGroups(EfficiencyGroup(st, keys[g]), keys, g + 1)

calculate_energy_efficiency(exps, err) ==
    EfficiencyGroups([exps |-> exps, result |-> <<>>, stderr |-> err, raised |-> "none"],
                     GroupOrderFrom(exps, 1, <<>>), 1)

----------------------------------------------------------------------------
(* The record loaders: generate_graviton_findings.load_comparison_csv,     *)
(* generate_power_findings.load_enriched_csv, parse_powermetrics.          *)
(* load_pilot_csv.  A schema lists the coerced columns in the order the    *)
(* loader coerces them.                                                    *)

Col(name, type) == [column |-> name, type |-> type]

ComparisonSchema ==
    << Col("mac_throughput", "float"), Col("mac_speedup", "float"),
       Col("graviton_throughput", "float"), Col("graviton_speedup", "float"),
       Col("portability_ratio", "float"), Col("speedup_variance_pct", "float"),
       Col("graviton_vs_mac_throughput", "float") >>

EnrichedSchema ==
    << Col("cpu_power_w", "float"), Col("energy_wh", "float"),
       Col("energy_per_seq_uwh", "float"), Col("time_speedup_vs_naive", "float"),
       Col("energy_speedup_vs_naive", "float"), Col("energy_efficiency", "float"),
       Col("throughput_seqs_per_sec", "float") >>

PilotSchema ==
    << Col("timestamp", "datetime"), Col("loop_duration_s", "float"),
       Col("num_sequences", "int"), Col("iterations", "int"),
       Col("sequences_processed", "int"), Col("throughput_seqs_per_sec", "float") >>

SchemaOf(loader) ==
    CASE loader = "load_comparison_csv" -> ComparisonSchema
      [] loader = "load_enriched_csv" -> EnrichedSchema
      [] loader = "load_pilot_csv" -> PilotSchema

(* float(s), int(s), datetime.fromisoformat(s): the strings each accepts   *)
CoerceOk(type, s) ==
    CASE type = "float" -> s \in {"10", "2.5"}
      [] type = "int" -> s = "10"
      [] type = "datetime" -> s = "2025-11-02T14:30:00"

Coerce(type, s) ==
    CASE type = "float" -> (IF s = "10" THEN <<10, 1>> ELSE <<5, 2>>)
      [] type = "int" -> <<10>>
      [] type = "datetime" -> <<2025, 11, 2, 14, 30, 0>>

GoodString(type) ==
    CASE type = "float" -> "2.5"
      [] type = "int" -> "10"
      [] type = "datetime" -> "2025-11-02T14:30:00"

BadStrings(type) ==
    CASE type = "float" -> {"abc", ""}
      [] type = "int" -> {"abc", "2.5"}
      [] type = "datetime" -> {"abc"}

SchemaColumns(schema) == {schema[k].column : k \in DOMAIN schema}

ColumnType(schema, c) == schema[CHOOSE k \in DOMAIN schema : schema[k].column = c].type

(* the rows of the file: a well-formed row, or one with one bad field *)
GoodRow(schema) ==
    [c \in SchemaColumns(schema) \cup {"operation"} |->
        IF c = "operation" THEN "A" ELSE GoodString(ColumnType(schema, c))]

FileRows(schema) ==
    {GoodRow(schema)} \cup
    UNION { {[GoodRow(schema) EXCEPT ![schema[k].column] = bad] :
                bad \in BadStrings(schema[k].type)} : k \in DOMAIN schema }

(* row[column] = float(row[column]) ..., column after column; the first    *)
(* string its conversion rejects raises ValueError, whose message holds    *)
(* that string                                                             *)
RECURSIVE CoerceRow(_, _, _)
CoerceRow(row, schema, k) ==
    IF k > Len(schema) THEN [ok |-> TRUE, row |-> row]
    ELSE LET c == schema[k]
         IN  IF ~CoerceOk(c.type, row[c.column])
             THEN [ok |-> FALSE, value |-> row[c.column]]
             ELSE CoerceRow([row EXCEPT ![c.column] = Coerce(c.type, row[c.column])],
                            schema, k + 1)

(* for row in reader: ...; data.append(row) *)
RECURSIVE LoadFrom(_, _, _, _)
LoadFrom(file_rows, schema, i, data) ==
    IF i > Len(file_rows)
    THEN [raised |-> "none", args |-> <<>>, returned |-> data]
    ELSE LET r == CoerceRow(file_rows[i], schema, 1)
         IN  IF ~r.ok
             THEN [raised |-> "ValueError", args |-> [value |-> r.value],
                   returned |-> <<>>]
             ELSE LoadFrom(file_rows, schema, i + 1, Append(data, r.row))

load_records(loader, file_rows) == LoadFrom(file_rows, SchemaOf(loader), 1, <<>>)

----------------------------------------------------------------------------
(* analyze_composition.py: load_data.  A line of the file is its fields,   *)
(* each a sequence of characters; '[' is the comment character.            *)

CompositionColumns == <<"operation", "backend">>

Fields == { <<"a">>, <<"b">>, <<"[", "a">>, <<"a", "[">> }

FileLines == [DOMAIN CompositionColumns -> Fields]

NaN == <<>>

(* the text of the line: its fields joined by commas *)
RECURSIVE JoinFields(_, _)
JoinFields(fields, k) ==
    IF k > Len(fields) THEN <<>>
    ELSE IF k = Len(fields) THEN fields[k]
    ELSE fields[k] \o <<",">> \o JoinFields(fields, k + 1)

(* comment='[': the rest of the line from the first '[' is not parsed *)
RECURSIVE StripComment(_)
StripComment(text) ==
    IF text = <<>> \/ Head(text) = "[" THEN <<>>
    ELSE <<Head(text)>> \o StripComment(Tail(text))

(* the fields of a text, split at its commas *)
RECURSIVE SplitFields(_, _)
SplitFields(text, field) ==
    IF text = <<>> THEN <<field>>
    ELSE IF Head(text) = "," THEN <<field>> \o SplitFields(Tail(text), <<>>)
    ELSE SplitFields(Tail(text), Append(field, Head(text)))

(* one parsed row: missing and empty fields are NaN *)
FrameRow(parsed) ==
    [c \in {CompositionColumns[k] : k \in DOMAIN CompositionColumns} |->
        LET k == CHOOSE j \in DOMAIN CompositionColumns : CompositionColumns[j] = c
        IN  IF k \in DOMAIN parsed THEN parsed[k] ELSE NaN]

(* pd.read_csv(csv_path, comment='['): a line that is all comment is       *)
(* skipped                                                                 *)
RECURSIVE read_csv(_, _)
read_csv(file_lines, i) ==
    IF i > Len(file_lines) THEN <<>>
    ELSE LET text == StripComment(JoinFields(file_lines[i], 1))
         IN  IF text = <<>> THEN read_csv(file_lines, i + 1)
             ELSE <<FrameRow(SplitFields(text, <<>>))>> \o read_csv(file_lines, i + 1)

NotNa(row) == row.operation # NaN

load_data(file_lines) == SelectSeq(read_csv(file_lines, 1), NotNa)

----------------------------------------------------------------------------
----------------------------------------------------------------------------
(* analyze_composition.py: calculate_speedups.  The throughputs are numpy  *)
(* floats: a division by zero gives inf or nan (and a warning), never an   *)
(* exception.  Only values >= 0 occur.                                     *)

Inf == <<1, 0>>

NpDiv(a, b) ==
    IF a = NaN \/ b = NaN THEN NaN
    ELSE IF b = Inf THEN (IF a = Inf THEN NaN ELSE Zero)
    ELSE IF a = Inf THEN Inf
    ELSE IF b[1] = 0 THEN (IF a[1] = 0 THEN NaN ELSE Inf)
    ELSE Frac(a[1] * b[2], a[2] * b[1])

NpMul(a, b) ==
    IF a = NaN \/ b = NaN THEN NaN
    ELSE IF a = Inf \/ b = Inf
         THEN (IF a = Zero \/ b = Zero THEN NaN ELSE Inf)
    ELSE Frac(a[1] * b[1], a[2] * b[2])

NpSub(a, b) ==
    IF a = NaN \/ b = NaN THEN NaN
    ELSE IF a = Inf THEN Inf
    ELSE Frac(a[1] * b[2] - b[1] * a[2], a[2] * b[2])

NpAbs(x) == IF x = NaN \/ x = Inf THEN x ELSE <<Abs(x[1]), x[2]>>

(* x > 0: False for nan *)
NpGt0(x) == x # NaN /\ (x = Inf \/ x[1] > 0)

(* complexity < bound on two finite floats *)
FloatLt(a, b) == a[1] * b[2] < b[1] * a[2]

Backends == {"naive", "neon", "neon_parallel"}

(* the complexity score of an operation: below, at and between the two     *)
(* thresholds of expected_parallel_speedup                                 *)
Complexities == {<<1, 4>>, <<3, 10>>, <<2, 5>>, <<9, 20>>}

CompositionRow(operation, backend, complexity, throughput) ==
    [operation |-> operation, scale |-> "Medium", backend |-> backend,
     complexity |-> complexity, num_sequences |-> 10000,
     throughput_seqs_per_sec |-> throughput]

(* the rows of operation A, whose complexity the file fixes, and a row of  *)
(* operation B                                                             *)
CompositionRows(complexity) ==
    { CompositionRow("A", "naive", complexity, <<0, 1>>),
      CompositionRow("A", "naive", complexity, <<100, 1>>),
      CompositionRow("A", "neon", complexity, <<0, 1>>),
      CompositionRow("A", "neon", complexity, <<200, 1>>),
      CompositionRow("A", "neon_parallel", complexity, <<400, 1>>),
      CompositionRow("B", "naive", <<1, 4>>, <<100, 1>>) }

(* a complete group of operation B *)
CompleteGroup ==
    << CompositionRow("B", "naive", <<1, 4>>, <<100, 1>>),
       CompositionRow("B", "neon", <<1, 4>>, <<400, 1>>),
       CompositionRow("B", "neon_parallel", <<1, 4>>, <<400, 1>>) >>

(* a mutant of expected_parallel_speedup: <= for < at the thresholds *)
expected_parallel_speedup_inclusive(complexity) ==
    IF ~FloatLt(<<3, 10>>, complexity) THEN <<2, 1>>
    ELSE IF ~FloatLt(<<9, 20>>, complexity) THEN <<7, 2>>
    ELSE <<5, 1>>

expected_parallel_speedup(complexity) ==
    IF FloatLt(complexity, <<3, 10>>) THEN <<2, 1>>
    ELSE IF FloatLt(complexity, <<9, 20>>) THEN <<7, 2>>
    ELSE <<5, 1>>

(* df[(df.operation == op) & (df.scale == scale)] *)
Subset(frame, key) == SelectSeq(frame, LAMBDA row : GroupKey(row) = key)

(* subset[subset.backend == backend]['throughput_seqs_per_sec'].values *)
BackendThroughput(subset, backend) ==
    LET of_backend == SelectSeq(subset, LAMBDA row : row.backend = backend)
    IN  [k \in DOMAIN of_backend |-> of_backend[k].throughput_seqs_per_sec]

(* the dict appended for one (operation, scale) whose three backends are   *)
(* present                                                                 *)
CompositionResult(subset, naive_tp, neon_tp, neon_parallel_tp) ==
    LET complexity == subset[1].complexity
        speedup_neon == NpDiv(neon_tp, naive_tp)
        expected_parallel == expected_parallel_speedup(complexity)
        speedup_neon_parallel == NpDiv(neon_parallel_tp, naive_tp)
        observed_parallel == NpDiv(neon_parallel_tp, neon_tp)
        predicted_combined == NpMul(speedup_neon, expected_parallel)
        composition_ratio ==
            IF NpGt0(predicted_combined)
            THEN NpDiv(speedup_neon_parallel, predicted_combined)
            ELSE Zero
    IN  [operation |-> subset[1].operation,
         complexity |-> complexity,
         scale |-> subset[1].scale,
         num_sequences |-> subset[1].num_sequences,
         speedup_neon |-> speedup_neon,
         expected_parallel |-> expected_parallel,
         observed_parallel |-> observed_parallel,
         speedup_neon_parallel |-> speedup_neon_parallel,
         predicted_combined |-> predicted_combined,
         composition_ratio |-> composition_ratio,
         error_pct |-> NpMul(NpAbs(NpSub(composition_ratio, One)), Hundred)]

(* "for (op, scale) in df[['operation', 'scale']].drop_duplicates().values" *)
RECURSIVE CompositionFrom(_, _, _)
CompositionFrom(frame, pairs, k) ==
    IF k > Len(pairs) THEN <<>>
    ELSE LET subset == Subset(frame, pairs[k])
             naive_values == BackendThroughput(subset, "naive")
             neon_values == BackendThroughput(subset, "neon")
             neon_parallel_values == BackendThroughput(subset, "neon_parallel")
         IN  IF Len(naive_values) = 0 \/ Len(neon_values) = 0
                \/ Len(neon_parallel_values) = 0
             THEN CompositionFrom(frame, pairs, k + 1)
             ELSE <<CompositionResult(subset, naive_values[1], neon_values[1],
                                      neon_parallel_values[1])>>
                  \o CompositionFrom(frame, pairs, k + 1)

(* analyze_composition.calculate_speedups(df): the rows of the returned    *)
(* frame                                                                   *)
composition_calculate_speedups(frame) ==
    CompositionFrom(frame, GroupOrderFrom(frame, 1, <<>>), 1)

----------------------------------------------------------------------------
(* parse_powermetrics.py: parse_powermetrics_log.  The text between the    *)
(* parentheses of an announcement line is a sequence of tokens: words and  *)
(* single blanks.                                                          *)

None == <<>>

TimestampTexts ==
    { <<"Sat", " ", "Nov", " ", " ", "2", " ", "14:30:05", " ", "2025", " ", "-0700">>,
      <<"Sat", " ", "Nov", " ", "2", " ", "14:30:05", " ", "2025", " ", "-0700">>,
      <<"Sat", " ", "Nov", " ", "2", " ", "14:30:06", " ", "2025", " ", "-0700">>,
      <<" ", "Sat", " ", "Nov", " ", "2", " ", "14:30:06", " ", "2025">>,
      <<"garbage">> }

PowerDigits == {"100", "400"}

(* the lines of the log: announcements, CPU Power lines, anything else *)
LogLines ==
    {[kind |-> "announcement", text |-> t] : t \in TimestampTexts}
    \cup {[kind |-> "cpu_power", digits |-> d] : d \in PowerDigits}
    \cup {[kind |-> "other"]}

(* str.strip() *)
RECURSIVE LStrip(_)
LStrip(text) ==
    IF text # <<>> /\ Head(text) = " " THEN LStrip(Tail(text)) ELSE text

RECURSIVE RStrip(_)
RStrip(text) ==
    IF text # <<>> /\ text[Len(text)] = " "
    THEN RStrip(SubSeq(text, 1, Len(text) - 1)) ELSE text

Strip(text) == RStrip(LStrip(text))

(* re.sub(r'\s+', ' ', text): every run of blanks becomes one blank *)
RECURSIVE Normalize(_)
Normalize(text) ==
    IF Len(text) < 2 THEN text
    ELSE IF text[1] = " " /\ text[2] = " " THEN Normalize(Tail(text))
    ELSE <<Head(text)>> \o Normalize(Tail(text))

(* the directives of "%a %b %d %H:%M:%S %Y %z": a blank of the format      *)
(* matches one or more blanks of the text                                  *)
RECURSIVE MatchDirectives(_, _)
MatchDirectives(text, k) ==
    IF text = <<>> THEN IF k = 6 THEN <<>> ELSE <<"mismatch">>
    ELSE IF k = 6 THEN <<"mismatch">>
    ELSE IF Head(text) = " " THEN <<"mismatch">>
    ELSE LET rest == Tail(text)
         IN  IF rest = <<>> THEN <<Head(text)>> \o MatchDirectives(rest, k + 1)
             ELSE IF Head(rest) # " " THEN <<"mismatch">>
             ELSE <<Head(text)>> \o MatchDirectives(LStrip(rest), k + 1)

WeekdayNames == {"Sat"}
MonthNumber == [m \in {"Nov"} |-> 11]
DayNumber == [d \in {"2"} |-> 2]
ClockTime == [t \in {"14:30:05", "14:30:06"} |->
                IF t = "14:30:05" THEN <<14, 30, 5>> ELSE <<14, 30, 6>>]
YearNumber == [y \in {"2025"} |-> 2025]
UtcOffsetMinutes == [z \in {"-0700"} |-> -420]

(* datetime.strptime(text, "%a %b %d %H:%M:%S %Y %z"): the datetime, or    *)
(* ValueError                                                              *)
strptime(text) ==
    LET f == MatchDirectives(text, 0)
    IN  IF /\ Len(f) = 6
           /\ f[1] \in WeekdayNames /\ f[2] \in DOMAIN MonthNumber
           /\ f[3] \in DOMAIN DayNumber /\ f[4] \in DOMAIN ClockTime
           /\ f[5] \in DOMAIN YearNumber /\ f[6] \in DOMAIN UtcOffsetMinutes
        THEN [raised |-> "none",
              value |-> <<YearNumber[f[5]], MonthNumber[f[2]], DayNumber[f[3]]>>
                        \o ClockTime[f[4]] \o <<UtcOffsetMinutes[f[6]]>>]
        ELSE [raised |-> "ValueError", value |-> None]

(* the try / except ValueError / try of lines 46-56 *)
parse_timestamp(timestamp_str) ==
    LET first == strptime(Strip(timestamp_str))
    IN  IF first.raised = "none" THEN first
        ELSE strptime(Normalize(Strip(timestamp_str)))

(* if power_match and current_timestamp; before it a mutant that appends  *)
(* the sample whatever the timestamp                                       *)
appends_sample_always(power_match, current_timestamp) == power_match

appends_sample(power_match, current_timestamp) ==
    power_match /\ current_timestamp # None

(* the body of "for line in f"; st: [current_timestamp, samples, stderr] *)
ParseLine(st, line) ==
    LET ts == IF line.kind = "announcement"
              THEN parse_timestamp(line.text)
              ELSE [raised |-> "none", value |-> st.current_timestamp]
    IN  IF ts.raised # "none"
        THEN [st EXCEPT !.stderr = Append(st.stderr, "warning_timestamp")]
        ELSE IF appends_sample(line.kind = "cpu_power", ts.value)
        THEN [st EXCEPT !.current_timestamp = ts.value,
                        !.samples = Append(st.samples,
                                           [timestamp |-> ts.value,
                                            cpu_power_mw |-> PyFloat(line.digits)])]
        ELSE [st EXCEPT !.current_timestamp = ts.value]

RECURSIVE ParseLines(_, _, _)
ParseLines(st, file_lines, i) ==
    IF i > Len(file_lines) THEN st
    ELSE ParseLines(ParseLine(st, file_lines[i]), file_lines, i + 1)

parse_powermetrics_log(file_lines, err) ==
    LET st == ParseLines([current_timestamp |-> None, samples |-> <<>>, stderr |-> err],
                         file_lines, 1)
    IN  [samples |-> st.samples, stderr |-> Append(st.stderr, "parsed_count")]

----------------------------------------------------------------------------
(* compare_mac_graviton.write_comparison and the file it writes.  A float  *)
(* is written as str(float) and read back with float(); the text of a      *)
(* number is a sequence of characters.                                     *)

Digits == <<"0", "1", "2", "3", "4", "5", "6", "7", "8", "9">>

DigitValue(c) == (CHOOSE k \in DOMAIN Digits : Digits[k] = c) - 1

IsDigit(c) == \E k \in DOMAIN Digits : Digits[k] = c

RECURSIVE NatDigits(_)
NatDigits(n) ==
    IF n < 10 THEN <<Digits[n + 1]>>
    ELSE NatDigits(n \div 10) \o <<Digits[(n % 10) + 1]>>

(* the decimal digits of r / d, 0 <= r < d, at most 17 of them *)
RECURSIVE FracDigits(_, _, _)
FracDigits(r, d, k) ==
    IF r = 0 \/ k = 17 THEN <<>>
    ELSE <<Digits[((r * 10) \div d) + 1]>> \o FracDigits((r * 10) % d, d, k + 1)

(* str(x) of a float: sign, integer part, '.', fraction ("4.0", "-93.75"); *)
(* before it a mutant that drops the sign                                  *)
float_str_unsigned(x) ==
    LET a == Abs(x[1])
    IN  NatDigits(a \div x[2]) \o <<".">>
        \o (IF a % x[2] = 0 THEN <<"0">> ELSE FracDigits(a % x[2], x[2], 0))

float_str(x) ==
    LET a == Abs(x[1])
    IN  (IF x[1] < 0 THEN <<"-">> ELSE <<>>)
        \o NatDigits(a \div x[2]) \o <<".">>
        \o (IF a % x[2] = 0 THEN <<"0">> ELSE FracDigits(a % x[2], x[2], 0))

RECURSIVE DigitsValue(_, _)
DigitsValue(chars, acc) ==
    IF chars = <<>> THEN acc
    ELSE DigitsValue(Tail(chars), acc * 10 + DigitValue(Head(chars)))

(* float(text): the value, or ValueError for a text that is no number *)
float_of_text(text) ==
    LET neg == text # <<>> /\ Head(text) = "-"
        body == IF neg THEN Tail(text) ELSE text
        dots == {k \in DOMAIN body : body[k] = "."}
        p == IF dots = {} THEN Len(body) + 1 ELSE Min(dots)
        int_part == SubSeq(body, 1, p - 1)
        frac_part == SubSeq(body, p + 1, Len(body))
    IN  IF \/ Cardinality(dots) > 1
           \/ int_part \o frac_part = <<>>
           \/ \E k \in DOMAIN body : k \notin dots /\ ~IsDigit(body[k])
        THEN [raised |-> "ValueError", value |-> None]
        ELSE [raised |-> "none",
              value |-> Frac((IF neg THEN -1 ELSE 1)
                                * (DigitsValue(int_part, 0) * (10 ^ Len(frac_part))
                                   + DigitsValue(frac_part, 0)),
                             10 ^ Len(frac_part))]

(* the keys of a comparison dict, in insertion order *)
ComparisonFieldnames ==
    << "operation", "config", "scale", "num_sequences", "mac_throughput",
       "mac_speedup", "graviton_throughput", "graviton_speedup",
       "portability_ratio", "speedup_variance_pct", "graviton_vs_mac_throughput" >>

ComparisonFloatKeys ==
    {"mac_throughput", "mac_speedup", "graviton_throughput", "graviton_speedup",
     "portability_ratio", "speedup_variance_pct", "graviton_vs_mac_throughput"}

(* csv.DictWriter.writerow: every value through str() *)
WrittenRow(row, fieldnames) ==
    [c \in {fieldnames[k] : k \in DOMAIN fieldnames} |->
        IF c \in ComparisonFloatKeys THEN float_str(row[c]) ELSE row[c]]

(* write_comparison(comparison, output_path): the file, None when nothing  *)
(* is written                                                              *)
write_comparison(cmp, dir_exists) ==
    IF cmp = <<>>
    THEN [raised |-> "none", file |-> None, stderr |-> <<"no_comparison_data">>]
    ELSE IF ~dir_exists
    THEN [raised |-> "FileNotFoundError", file |-> None, stderr |-> <<>>]
    ELSE [raised |-> "none",
          file |-> [header |-> ComparisonFieldnames,
                    rows |-> [i \in DOMAIN cmp |-> WrittenRow(cmp[i], ComparisonFieldnames)]],
          stderr |-> <<"comparison_complete">>]

(* print_summary(comparison) *)
print_summary(cmp) ==
    IF cmp # <<>> /\ \E i \in DOMAIN cmp : cmp[i].config = "neon"
    THEN <<"portability_summary">> ELSE <<>>

(* load_comparison_csv on a written file: row[column] = float(row[column]) *)
(* for the columns of the schema, in its order                             *)
RECURSIVE ReadRow(_, _, _)
ReadRow(row, schema, k) ==
    IF k > Len(schema) THEN [raised |-> "none", row |-> row]
    ELSE LET c == schema[k].column
         IN  IF c \notin DOMAIN row THEN [raised |-> "KeyError", row |-> row]
             ELSE LET v == float_of_text(row[c])
                  IN  IF v.raised # "none" THEN [raised |-> v.raised, row |-> row]
                      ELSE ReadRow([row EXCEPT ![c] = v.value], schema, k + 1)

RECURSIVE ReadFrom(_, _, _, _)
ReadFrom(file_rows, schema, i, data) ==
    IF i > Len(file_rows) THEN [raised |-> "none", returned |-> data]
    ELSE LET r == ReadRow(file_rows[i], schema, 1)
         IN  IF r.raised # "none" THEN [raised |-> r.raised, returned |-> <<>>]
             ELSE ReadFrom(file_rows, schema, i + 1, Append(data, r.row))

load_comparison_csv(file) == ReadFrom(file.rows, ComparisonSchema, 1, <<>>)

----------------------------------------------------------------------------
(* Output directories: Path.mkdir, and extract_mac_baseline.py *)

(* Path.mkdir(parents=..., exist_ok=...) on a directory one level below    *)
(* its parent                                                              *)
mkdir(parents, exist_ok, parent_exists, dir_exists) ==
    IF dir_exists
    THEN [raised |-> IF exist_ok THEN "none" ELSE "FileExistsError",
          parent_exists |-> parent_exists, dir_exists |-> dir_exists]
    ELSE IF ~parent_exists /\ ~parents
    THEN [raised |-> "FileNotFoundError",
          parent_exists |-> parent_exists, dir_exists |-> dir_exists]
    ELSE [raised |-> "none", parent_exists |-> TRUE, dir_exists |-> TRUE]

(* the directory states that can be: a directory lies in its parent *)
DirectoryStates ==
    {t \in [parent_exists : BOOLEAN, dir_exists : BOOLEAN] :
        t.dir_exists => t.parent_exists}

target_operations == {"base_counting", "gc_content", "quality_aggregation"}
target_configs == {"naive", "neon", "neon_4t"}
target_scales == {"Medium", "Large"}

PilotFieldnames ==
    <<"operation", "config", "scale", "num_sequences", "throughput_seqs_per_sec">>

PilotRow(operation, config, scale) ==
    [operation |-> operation, config |-> config, scale |-> scale,
     num_sequences |-> "10000", throughput_seqs_per_sec |-> "100"]

(* rows of a power pilot CSV: two operations, two configs, two scales, and *)
(* one operation that is not a target                                      *)
PilotCsvRows ==
    { PilotRow("gc_content", "neon", "Medium"),
      PilotRow("gc_content", "naive", "Medium"),
      PilotRow("gc_content", "naive", "Large"),
      PilotRow("base_counting", "naive", "Medium"),
      PilotRow("kmer_counting", "naive", "Medium") }

(* rows of a pilot CSV with a config and a scale that are not targets *)
ExtractRows ==
    PilotCsvRows \cup { PilotRow("gc_content", "neon_8t", "Medium"),
                        PilotRow("base_counting", "naive", "Small") }

(* a mac_baseline.csv that an earlier run left *)
EarlierBaseline ==
    [header |-> PilotFieldnames,
     rows |-> <<PilotRow("quality_aggregation", "neon_4t", "Large")>>]

(* a mutant of IsTarget: the scale is not looked at *)
IsTargetAnyScale(row) ==
    /\ row.operation \in target_operations
    /\ row.config \in target_configs

IsTarget(row) ==
    /\ row.operation \in target_operations
    /\ row.config \in target_configs
    /\ row.scale \in target_scales

(* extract_mac_baseline(power_csv_path, output_path): the file written,    *)
(* None when no row matches                                                *)
extract_mac_baseline(file_rows) ==
    LET baseline == SelectSeq(file_rows, IsTarget)
    IN  IF baseline # <<>>
        THEN [file |-> [header |-> PilotFieldnames, rows |-> baseline],
              stderr |-> <<"extracted">>]
        ELSE [file |-> None, stderr |-> <<"no_matching_experiments">>]

----------------------------------------------------------------------------
(* analyze_parallel.py: best rows and decision rules.  A frame is the      *)
(* sequence of its rows; the label of a row is its position (RangeIndex).  *)

PyAdd(a, b) ==
    IF IsFault(a) \/ IsFault(b) THEN Fault
    ELSE Frac(a[1] * b[2] + b[1] * a[2], a[2] * b[2])

(* a > b on floats; a comparison with NaN is False *)
FloatGt(a, b) == a # NaN /\ b # NaN /\ a[1] * b[2] > b[1] * a[2]

RECURSIVE FloatSum(_)
FloatSum(values) ==
    IF values = <<>> THEN Zero ELSE PyAdd(Head(values), FloatSum(Tail(values)))

(* Series.mean(): NaN for an empty series *)
Mean(values) ==
    IF values = <<>> THEN NaN ELSE PyDiv(FloatSum(values), <<Len(values), 1>>)

ParallelOperations == {"A", "B"}
Assignments == {"default", "p_cores", "e_cores"}
Rule2Scales == <<"Small", "Medium", "Large", "VeryLarge", "Huge">>

ParallelRows ==
    [operation : ParallelOperations, scale : {"Huge"}, threads : {8},
     assignment : Assignments, speedup_vs_1t : {<<1, 1>>, <<2, 1>>}]
    \cup {[operation |-> "A", scale |-> "Giant", threads |-> 8,
           assignment |-> "default", speedup_vs_1t |-> <<2, 1>>]}

(* df[mask]: the labels of the rows kept, in order *)
RECURSIVE LabelsFrom(_, _, _)
LabelsFrom(frame, Keep(_), i) ==
    IF i > Len(frame) THEN <<>>
    ELSE IF Keep(frame[i]) THEN <<i>> \o LabelsFrom(frame, Keep, i + 1)
    ELSE LabelsFrom(frame, Keep, i + 1)

(* a mutant of idxmax_from: a later row that equals the maximum replaces it *)
RECURSIVE idxmax_last_from(_, _, _, _)
idxmax_last_from(frame, labels, k, best) ==
    IF k > Len(labels) THEN best
    ELSE IF ~FloatGt(frame[best].speedup_vs_1t, frame[labels[k]].speedup_vs_1t)
         THEN idxmax_last_from(frame, labels, k + 1, labels[k])
         ELSE idxmax_last_from(frame, labels, k + 1, best)

(* Series.idxmax(): the scan keeps the first label of the maximum *)
RECURSIVE idxmax_from(_, _, _, _)
idxmax_from(frame, labels, k, best) ==
    IF k > Len(labels) THEN best
    ELSE IF FloatGt(frame[labels[k]].speedup_vs_1t, frame[best].speedup_vs_1t)
         THEN idxmax_from(frame, labels, k + 1, labels[k])
         ELSE idxmax_from(frame, labels, k + 1, best)

(* op_data['speedup_vs_1t'].idxmax() on a frame that is not empty *)
idxmax(frame, labels) == idxmax_from(frame, labels, 2, labels[1])

UniqueOperations(frame) == {frame[i].operation : i \in DOMAIN frame}

(* lines 330-333: best_row of every operation *)
SummaryBest(frame) ==
    [op \in UniqueOperations(frame) |->
        LET OfOp(r) == r.operation = op
        IN  idxmax(frame, LabelsFrom(frame, OfOp, 1))]

(* lines 422-431: best_row of every scale and operation that has rows with *)
(* the default assignment                                                  *)
Rule2Best(frame) ==
    LET OpData(scale, op) ==
            LET Keep(r) == r.scale = scale /\ r.assignment = "default" /\ r.operation = op
            IN  LabelsFrom(frame, Keep, 1)
        keys == {<<Rule2Scales[k], op>> : k \in DOMAIN Rule2Scales,
                                           op \in UniqueOperations(frame)}
    IN  [key \in {x \in keys : OpData(x[1], x[2]) # <<>>} |->
            idxmax(frame, OpData(key[1], key[2]))]

(* ...['speedup_vs_1t'].mean() of the rows of an assignment, 8 threads,    *)
(* Huge scale                                                              *)
AssignmentMean(frame, op, assignment) ==
    LET Keep(r) == /\ r.scale = "Huge" /\ r.threads = 8
                   /\ r.operation = op /\ r.assignment = assignment
        labels == LabelsFrom(frame, Keep, 1)
    IN  Mean([k \in DOMAIN labels |-> frame[labels[k]].speedup_vs_1t])

(* lines 450-458: the two ifs, one after the other *)
BestAssignment(default_speedup, p_speedup, e_speedup) ==
    LET p_wins == p_speedup # NaN /\ FloatGt(p_speedup, default_speedup)
        after_p == IF p_wins THEN p_speedup ELSE default_speedup
        e_wins == e_speedup # NaN /\ FloatGt(e_speedup, after_p)
    IN  IF e_wins THEN "e_cores" ELSE IF p_wins THEN "p_cores" ELSE "default"

Rule3(frame) ==
    [op \in UniqueOperations(frame) |->
        BestAssignment(AssignmentMean(frame, op, "default"),
                       AssignmentMean(frame, op, "p_cores"),
                       AssignmentMean(frame, op, "e_cores"))]

----------------------------------------------------------------------------
(* complexity_regression.py: load_data, build_models, prediction_analysis. *)
(* What scikit-learn computes from the data (the R2 of a fit, the mean of  *)
(* the cross-validation scores) is an input of the model; when it raises   *)
(* is modelled.                                                            *)

scale_map ==
    [label \in {"tiny", "small", "medium", "large", "vlarge", "huge"} |->
        CASE label = "tiny" -> <<2, 1>> [] label = "small" -> <<3, 1>>
          [] label = "medium" -> <<4, 1>> [] label = "large" -> <<5, 1>>
          [] label = "vlarge" -> <<6, 1>> [] label = "huge" -> <<7, 1>>]

(* Series.map(dict): NaN for a label that is no key *)
MapScale(label) == IF label \in DOMAIN scale_map THEN scale_map[label] ELSE NaN

UsualRow == [operation |-> "gc_content", scale |-> "medium"]

OddRows ==
    { [operation |-> "reverse_complement", scale |-> "medium"],
      [operation |-> "gc_content", scale |-> "giant"] }

(* the files: UsualRow everywhere but at up to MaxOddRows positions *)
RegressionFiles ==
    UNION { {f \in [1..n -> {UsualRow} \cup OddRows] :
                Cardinality({i \in 1..n : f[i] \in OddRows}) <= MaxOddRows} :
            n \in 0..MaxRegressionRows }

NotReverseComplement(row) == row.operation # "reverse_complement"

(* load_data(): df_filtered *)
regression_load_data(file_rows) ==
    SelectSeq([i \in DOMAIN file_rows |->
                  [operation |-> file_rows[i].operation,
                   scale |-> file_rows[i].scale,
                   scale_log10 |-> MapScale(file_rows[i].scale)]],
              NotReverseComplement)

EvaluationOrder == <<"linear", "polynomial", "random_forest", "gradient_boosting">>

Scores == {<<1, 2>>, <<9, 10>>}

(* cross_val_score(..., cv=5).mean(): KFold raises ValueError for fewer    *)
(* samples than splits; a fold of one sample has no R2, so the mean is NaN *)
CvSplits == 5

CrossValMean(n, score) ==
    IF n < CvSplits THEN [raised |-> "ValueError", value |-> NaN]
    ELSE IF n < 2 * CvSplits THEN [raised |-> "none", value |-> NaN]
    ELSE [raised |-> "none", value |-> score]

(* the four stages of build_models, one after the other; fitted[name]:     *)
(* the R2 of the fit and the cross-validation mean scikit-learn gives      *)
RECURSIVE BuildFrom(_, _, _, _)
BuildFrom(n, fitted, k, built) ==
    IF k > Len(EvaluationOrder) THEN [raised |-> "none", models |-> built]
    ELSE LET name == EvaluationOrder[k]
             cv == CrossValMean(n, fitted[name].cv)
         IN  IF cv.raised # "none"
             THEN [raised |-> cv.raised, models |-> built,
                   args |-> [model |-> name, call |-> "cross_val_score"]]
             ELSE BuildFrom(n, fitted, k + 1,
                            Append(built, [name |-> name, r2 |-> fitted[name].r2,
                                           cv |-> cv.value]))

(* max(models, key=lambda k: models[k][2]): the first key of the maximum *)
RECURSIVE FirstMaxByR2(_, _, _)
FirstMaxByR2(built, k, best) ==
    IF k > Len(built) THEN built[best].name
    ELSE IF FloatGt(built[k].r2, built[best].r2) THEN FirstMaxByR2(built, k + 1, k)
    ELSE FirstMaxByR2(built, k + 1, best)

(* build_models(df_filtered) *)
build_models(frame, fitted) ==
    IF frame = <<>>
    THEN [raised |-> "ValueError", models |-> <<>>, best |-> None,
          args |-> [model |-> "none", call |-> "StandardScaler.fit_transform"]]
    ELSE IF \E i \in DOMAIN frame : frame[i].scale_log10 = NaN
    THEN [raised |-> "ValueError", models |-> <<>>, best |-> None,
          args |-> [model |-> "linear", call |-> "LinearRegression.fit"]]
    ELSE LET b == BuildFrom(Len(frame), fitted, 1, <<>>)
         IN  IF b.raised # "none"
             THEN [raised |-> b.raised, models |-> b.models, best |-> None,
                   args |-> b.args]
             ELSE [raised |-> "none", models |-> b.models,
                   best |-> <<FirstMaxByR2(b.models, 2, 1)>>, args |-> <<>>]

(* exploratory_analysis(df, df_filtered): the heatmap of an empty pivot    *)
(* table has no minimum to scale its colours with                          *)
exploratory_analysis(frame) ==
    IF frame = <<>>
    THEN [raised |-> "ValueError", args |-> [model |-> "none", call |-> "sns.heatmap"]]
    ELSE [raised |-> "none", args |-> <<>>]

(* prediction_analysis: gb, _, _, _ = models['gradient_boosting'] *)
prediction_analysis_model(built) == "gradient_boosting"

----------------------------------------------------------------------------
(* The hard-coded scale lists of analyze_parallel.py (speedup matrices)    *)
(* and analyze_amx.py (speedup curves).                                    *)

scale_order == <<"Tiny", "Small", "Medium", "Large", "VeryLarge", "Huge">>

(* analyze_parallel lines 62-76: the pivot table of one operation and      *)
(* assignment, its columns reordered and restricted to scale_order         *)
SpeedupMatrix(frame, op, assignment) ==
    LET config_data == {i \in DOMAIN frame :
                           frame[i].operation = op /\ frame[i].assignment = assignment}
        InPivot(col) == \E i \in config_data : frame[i].scale = col
        columns == SelectSeq(scale_order, InPivot)
        index == {frame[i].threads : i \in config_data}
        Cell(threads, col) ==
            LET Keep(r) == /\ r.operation = op /\ r.assignment = assignment
                           /\ r.threads = threads /\ r.scale = col
                labels == LabelsFrom(frame, Keep, 1)
            IN  Mean([k \in DOMAIN labels |-> frame[labels[k]].speedup_vs_1t])
    IN  [columns |-> columns,
         cells |-> [c \in index \X {columns[k] : k \in DOMAIN columns} |->
                       Cell(c[1], c[2])]]

(* analyze_parallel lines 50-102: one matrix for every operation and every *)
(* assignment that has rows                                                *)
SpeedupMatrices(frame) ==
    LET keys == {<<op, a>> \in UniqueOperations(frame) \X Assignments :
                    \E i \in DOMAIN frame :
                        frame[i].operation = op /\ frame[i].assignment = a}
    IN  [key \in keys |-> SpeedupMatrix(frame, key[1], key[2])]

scale_nums == [k \in 1..Len(scale_order) |-> k - 1]

(* scale_nums[s]: the lookup of a dict *)
ScaleNum(s) ==
    IF \E k \in DOMAIN scale_order : scale_order[k] = s
    THEN [raised |-> "none",
          value |-> scale_nums[CHOOSE k \in DOMAIN scale_order : scale_order[k] = s]]
    ELSE [raised |-> "KeyError", value |-> None]

CurveBackends == <<"naive", "neon", "amx", "parallel_amx">>

AmxBackends == {"neon", "amx", "gpu"}

NumSequences ==
    [s \in {"Huge", "Giant"} |-> IF s = "Huge" THEN 10000000 ELSE 100000000]

AmxRows ==
    { [operation |-> op, backend |-> b, scale |-> s, num_sequences |-> NumSequences[s]] :
        op \in ParallelOperations, b \in AmxBackends, s \in {"Huge", "Giant"} }

(* sort_values('num_sequences'): the labels by ascending key; rows of one  *)
(* key have one scale in these files                                       *)
RECURSIVE SortByNumSequences(_, _)
SortByNumSequences(frame, labels) ==
    IF labels = {} THEN <<>>
    ELSE LET first == CHOOSE i \in labels :
                         \A j \in labels :
                            \/ frame[i].num_sequences < frame[j].num_sequences
                            \/ /\ frame[i].num_sequences = frame[j].num_sequences
                               /\ i <= j
         IN  <<first>> \o SortByNumSequences(frame, labels \ {first})

(* analyze_amx lines 82-83: x of one operation and backend *)
CurveX(frame, op, backend) ==
    LET order == SortByNumSequences(frame,
                    {i \in DOMAIN frame :
                        frame[i].operation = op /\ frame[i].backend = backend})
        looked == [k \in DOMAIN order |-> ScaleNum(frame[order[k]].scale)]
    IN  IF \E k \in DOMAIN looked : looked[k].raised # "none"
        THEN [raised |-> "KeyError", x |-> <<>>]
        ELSE [raised |-> "none", x |-> [k \in DOMAIN looked |-> looked[k].value]]

(* analyze_amx lines 73-85: the curves of every operation and backend *)
SpeedupCurves(frame) ==
    LET keys == {<<op, CurveBackends[k]>> : op \in UniqueOperations(frame),
                                             k \in DOMAIN CurveBackends}
    IN  IF \E key \in keys : CurveX(frame, key[1], key[2]).raised # "none"
        THEN [raised |-> "KeyError", curves |-> <<>>]
        ELSE [raised |-> "none",
              curves |-> [key \in keys |-> CurveX(frame, key[1], key[2]).x]]

----------------------------------------------------------------------------
(* Format specifications of f-strings: '.2f', '6.1f', '+7.1f', '.0%'.      *)

RECURSIVE Spaces(_)
Spaces(n) == IF n <= 0 THEN <<>> ELSE <<" ">> \o Spaces(n - 1)

(* right-aligned in a field (numbers), left-aligned (strings) *)
PadLeft(chars, width) == Spaces(width - Len(chars)) \o chars

RECURSIVE ZeroFill(_, _)
ZeroFill(chars, width) ==
    IF Len(chars) >= width THEN chars ELSE ZeroFill(<<"0">> \o chars, width)

(* format(x, '.df'): the nearest decimal of d places, a tie to the even    *)
(* digit; plus: the '+' flag                                               *)
FormatFixed(x, d, plus) ==
    LET scaled == Abs(x[1]) * (10 ^ d)
        q == scaled \div x[2]
        r == scaled % x[2]
        rounded == IF 2 * r > x[2] \/ (2 * r = x[2] /\ q % 2 = 1) THEN q + 1 ELSE q
        sign == IF x[1] < 0 THEN <<"-">> ELSE IF plus THEN <<"+">> ELSE <<>>
    IN  sign \o NatDigits(rounded \div (10 ^ d))
        \o (IF d = 0 THEN <<>>
            ELSE <<".">> \o ZeroFill(NatDigits(rounded % (10 ^ d)), d))

FormatPercent(x) == FormatFixed(PyMul(x, Hundred), 0, FALSE) \o <<"%">>

----------------------------------------------------------------------------
(* generate_graviton_findings.py: generate_findings.  The document is the  *)
(* sequence of what is written; fixed text is named by its heading.        *)

(* the strings that are sorted, in the order of str comparison *)
Lexicon == <<"Large", "Medium", "base_counting", "gc_content", "kmer_counting">>

(* sorted(d.items()) of a dict with string keys: the keys in order *)
SortedKeys(keys) ==
    LET Member(k) == k \in keys
    IN  SelectSeq(Lexicon, Member)

config_order == [c \in {"naive", "neon", "neon_4t"} |->
                    CASE c = "naive" -> 0 [] c = "neon" -> 1 [] c = "neon_4t" -> 2]

(* config_order.get(e['config'], 99) *)
ConfigOrder(exp) ==
    IF exp.config \in DOMAIN config_order THEN config_order[exp.config] ELSE 99

(* sorted(scale_data, key=...): stable *)
SortedByConfig(scale_data) ==
    LET Of(v) == LET Keep(e) == ConfigOrder(e) = v IN SelectSeq(scale_data, Keep)
    IN  Of(0) \o Of(1) \o Of(2) \o Of(99)

FourFifths == <<4, 5>>
SixFifths == <<6, 5>>

FloatLe(a, b) == a[1] * b[2] <= b[1] * a[2]

(* 0.8 <= avg_ratio <= 1.2 *)
InExpectedRange(avg_ratio) == FloatLe(FourFifths, avg_ratio) /\ FloatLe(avg_ratio, SixFifths)

RatioOf(c) == c.portability_ratio

FloatMin(values) ==
    CHOOSE v \in {values[k] : k \in DOMAIN values} :
        \A k \in DOMAIN values : FloatLe(v, values[k])

FloatMax(values) ==
    CHOOSE v \in {values[k] : k \in DOMAIN values} :
        \A k \in DOMAIN values : FloatLe(values[k], v)

TableRow(exp) ==
    [kind |-> "table_row",
     config |-> exp.config,
     mac_speedup |-> PadLeft(FormatFixed(exp.mac_speedup, 1, FALSE), 6),
     graviton_speedup |-> PadLeft(FormatFixed(exp.graviton_speedup, 1, FALSE), 6),
     portability_ratio |-> PadLeft(FormatFixed(exp.portability_ratio, 2, FALSE), 6),
     speedup_variance_pct |-> PadLeft(FormatFixed(exp.speedup_variance_pct, 1, TRUE), 7)]

(* lines 85-100: the tables of one operation, one per scale *)
RECURSIVE ScaleSections(_, _, _)
ScaleSections(op_data, scales, k) ==
    IF k > Len(scales) THEN <<>>
    ELSE LET OfScale(e) == e.scale = scales[k]
             scale_data == SelectSeq(op_data, OfScale)
             sorted == SortedByConfig(scale_data)
         IN  <<[kind |-> "scale_heading", scale |-> scales[k],
                num_sequences |-> scale_data[1].num_sequences],
               [kind |-> "table_header"]>>
             \o [j \in DOMAIN sorted |-> TableRow(sorted[j])]
             \o ScaleSections(op_data, scales, k + 1)

(* lines 77-102: the sections, one per operation *)
RECURSIVE OperationSections(_, _, _)
OperationSections(cmp, operations, k) ==
    IF k > Len(operations) THEN <<>>
    ELSE LET OfOperation(e) == e.operation = operations[k]
             op_data == SelectSeq(cmp, OfOperation)
         IN  <<[kind |-> "operation_heading", operation |-> operations[k]]>>
             \o ScaleSections(op_data,
                              SortedKeys({op_data[j].scale : j \in DOMAIN op_data}), 1)
             \o <<[kind |-> "rule"]>>
             \o OperationSections(cmp, operations, k + 1)

(* generate_findings(comparison, output_path, csv_path): what is written *)
generate_findings(cmp, csv_name) ==
    LET IsNeon(c) == c.config = "neon"
        IsNeon4t(c) == c.config = "neon_4t"
        neon_single == SelectSeq(cmp, IsNeon)
        parallel_data == SelectSeq(cmp, IsNeon4t)
        ratios == [k \in DOMAIN neon_single |-> RatioOf(neon_single[k])]
        avg_ratio == Mean(ratios)
        by_operation == {cmp[i].operation : i \in DOMAIN cmp}
    IN  <<[kind |-> "title"],
          [kind |-> "executive_summary", total |-> Len(cmp),
           operations |-> Cardinality(by_operation)]>>
        \o (IF neon_single # <<>>
            THEN <<[kind |-> "key_finding",
                    avg_ratio |-> FormatFixed(avg_ratio, 2, FALSE),
                    min_ratio |-> FormatFixed(FloatMin(ratios), 2, FALSE),
                    max_ratio |-> FormatFixed(FloatMax(ratios), 2, FALSE),
                    validated |-> InExpectedRange(avg_ratio)]>>
            ELSE <<>>)
        \o <<[kind |-> "results_by_operation"]>>
        \o OperationSections(cmp, SortedKeys(by_operation), 1)
        \o <<[kind |-> "platform_comparison"]>>
        \o (IF neon_single # <<>>
            THEN <<[kind |-> "neon_portability",
                    avg_ratio |-> FormatFixed(avg_ratio, 2, FALSE),
                    percent |-> FormatPercent(avg_ratio),
                    within |-> InExpectedRange(avg_ratio)]>>
            ELSE <<>>)
        \o (IF parallel_data # <<>>
            THEN <<[kind |-> "parallel_portability",
                    mac_4t_avg |->
                       FormatFixed(Mean([k \in DOMAIN parallel_data |->
                                            parallel_data[k].mac_speedup]), 1, FALSE),
                    graviton_4t_avg |->
                       FormatFixed(Mean([k \in DOMAIN parallel_data |->
                                            parallel_data[k].graviton_speedup]), 1, FALSE)]>>
            ELSE <<>>)
        \o <<[kind |-> "validation_of_claim"]>>
        \o (IF neon_single # <<>>
            THEN <<[kind |-> IF InExpectedRange(avg_ratio)
                             THEN "claim_validated" ELSE "claim_outside_range",
                    avg_ratio |-> FormatFixed(avg_ratio, 2, FALSE)]>>
            ELSE <<>>)
        \o <<[kind |-> "next_steps"],
             [kind |-> "generated", data_source |-> csv_name]>>

----------------------------------------------------------------------------
(* Runs of the scripts on one file system: extract_mac_baseline.py,        *)
(* compare_mac_graviton.py, generate_graviton_findings.py.  A file is the  *)
(* sequence of its lines, None when it does not exist; one run is two      *)
(* steps, what main does up to the end of its reading and what it writes.  *)

Path(parent, name) == [parent |-> parent, name |-> name]

PilotPath == Path("results/phase1_power_consumption", "power_pilot_raw.csv")
MacBaselinePath == Path("results/cross_platform_graviton", "mac_baseline.csv")
GravitonPath == Path("results/cross_platform_graviton", "graviton_raw.csv")
ComparisonPath ==
    Path("results/cross_platform_graviton", "mac_vs_graviton_comparison.csv")

(* comparison_csv.parent / "FINDINGS.md" *)
FindingsPath(comparison_csv_path) == Path(comparison_csv_path.parent, "FINDINGS.md")

PipelinePaths ==
    {PilotPath, MacBaselinePath, GravitonPath, ComparisonPath, FindingsPath(ComparisonPath)}

(* csv.DictWriter: writeheader(), writerows() *)
CsvLines(file) == <<[kind |-> "header", fieldnames |-> file.header]>> \o file.rows

(* csv.DictReader: the lines after the first as rows; a header line among *)
(* them is a row of texts that are no numbers                             *)
DictReader(file_lines) ==
    LET AsRow(line) ==
            IF "kind" \in DOMAIN line
            THEN [c \in {line.fieldnames[k] : k \in DOMAIN line.fieldnames} |->
                     IF c \in ComparisonFloatKeys THEN <<c>> ELSE c]
            ELSE line
    IN  [k \in 1..(Len(file_lines) - 1) |-> AsRow(file_lines[k + 1])]

(* a mutant of open_w: mode 'a', the file keeps what it had *)
open_a(existing, written) == existing \o written

(* open(path, 'w'): the file is what this run writes *)
open_w(existing, written) == written

PipelineScripts ==
    <<"extract_mac_baseline", "compare_mac_graviton", "generate_graviton_findings">>

(* main up to the end of its reading: sys.exit(1) for a missing input *)
ScriptLoad(name, fs) ==
    CASE name = "extract_mac_baseline" ->
            IF fs[PilotPath] = None THEN [pc |-> "exit_1", data |-> <<>>]
            ELSE [pc |-> "loaded", data |-> DictReader(fs[PilotPath])]
      [] name = "compare_mac_graviton" ->
            IF fs[MacBaselinePath] = None \/ fs[GravitonPath] = None
            THEN [pc |-> "exit_1", data |-> <<>>]
            ELSE [pc |-> "loaded",
                  data |-> compare_platforms(load_csv(DictReader(fs[MacBaselinePath])),
                                             load_csv(DictReader(fs[GravitonPath]))).comparison]
      [] name = "generate_graviton_findings" ->
            IF fs[ComparisonPath] = None THEN [pc |-> "exit_1", data |-> <<>>]
            ELSE LET l == load_comparison_csv([rows |-> DictReader(fs[ComparisonPath])])
                 IN  IF l.raised # "none" THEN [pc |-> "raised", data |-> <<>>]
                     ELSE [pc |-> "loaded", data |-> l.returned]

(* what main writes: the file system after it *)
ScriptWrite(name, data, fs) ==
    CASE name = "extract_mac_baseline" ->
            LET e == extract_mac_baseline(data)
            IN  IF e.file = None THEN fs
                ELSE [fs EXCEPT ![MacBaselinePath] = open_w(@, CsvLines(e.file))]
      [] name = "compare_mac_graviton" ->
            LET w == write_comparison(data, TRUE)
            IN  IF w.file = None THEN fs
                ELSE [fs EXCEPT ![ComparisonPath] = open_w(@, CsvLines(w.file))]
      [] name = "generate_graviton_findings" ->
            [fs EXCEPT ![FindingsPath(ComparisonPath)] =
                           open_w(@, generate_findings(data, ComparisonPath.name))]

(* one whole run of a script, nothing else running *)
RunScript(name, fs) ==
    LET l == ScriptLoad(name, fs)
    IN  IF l.pc = "loaded" THEN ScriptWrite(name, l.data, fs) ELSE fs

RECURSIVE RunScripts(_, _)
RunScripts(names, fs) ==
    IF names = <<>> THEN fs ELSE RunScripts(Tail(names), RunScript(Head(names), fs))

OutputPath(name) ==
    CASE name = "extract_mac_baseline" -> MacBaselinePath
      [] name = "compare_mac_graviton" -> ComparisonPath
      [] name = "generate_graviton_findings" -> FindingsPath(ComparisonPath)

PipelineRow(operation, config, scale, throughput) ==
    [operation |-> operation, config |-> config, scale |-> scale,
     num_sequences |-> "10000", throughput_seqs_per_sec |-> throughput]

PipelinePilotRows ==
    { PipelineRow("gc_content", "naive", "Medium", "100"),
      PipelineRow("gc_content", "neon", "Medium", "400"),
      PipelineRow("base_counting", "naive", "Medium", "100"),
      PipelineRow("gc_content", "naive", "Large", "100"),
      PipelineRow("kmer_counting", "naive", "Medium", "100") }

(* Graviton files: configs, operations and scales out of sorted order *)
GravitonFiles ==
    { << PipelineRow("gc_content", "neon", "Medium", "100"),
         PipelineRow("gc_content", "naive", "Medium", "100") >>,
      << PipelineRow("gc_content", "naive", "Medium", "100"),
         PipelineRow("base_counting", "naive", "Medium", "400") >>,
      << PipelineRow("gc_content", "naive", "Medium", "400"),
         PipelineRow("gc_content", "naive", "Large", "100") >> }

(* the scripts run before, in the documented order *)
EarlierRuns ==
    { <<>>, <<"extract_mac_baseline">>,
      <<"extract_mac_baseline", "compare_mac_graviton">> }

RawFiles(pilot_rows, graviton_rows) ==
    [path \in PipelinePaths |->
        CASE path = PilotPath ->
                CsvLines([header |-> PilotFieldnames, rows |-> pilot_rows])
          [] path = GravitonPath ->
                CsvLines([header |-> PilotFieldnames, rows |-> graviton_rows])
          [] OTHER -> None]

Ready(name) == [script |-> name, pc |-> "ready", data |-> <<>>,
                after_other |-> FALSE, files_after |-> <<>>]

Ended(proc) == proc.pc \in {"done", "exit_1", "raised"}

----------------------------------------------------------------------------
----------------------------------------------------------------------------
(* parse_powermetrics.py: save_enriched_csv, and generate_power_findings.py.*)
(* A cell of a numeric column is the sequence of characters str() gives;   *)
(* the document is the sequence of what is written.                        *)

EnrichedFieldnames ==
    << "operation", "config", "scale", "num_sequences", "loop_duration_s",
       "iterations", "sequences_processed", "throughput_seqs_per_sec",
       "cpu_power_mw", "cpu_power_w", "energy_wh", "energy_per_seq_uwh",
       "time_speedup_vs_naive", "energy_speedup_vs_naive", "energy_efficiency",
       "power_samples_count", "timestamp" >>

EnrichedIntKeys ==
    {"num_sequences", "iterations", "sequences_processed", "power_samples_count"}

EnrichedFloatKeys ==
    {"loop_duration_s", "throughput_seqs_per_sec", "cpu_power_mw", "cpu_power_w",
     "energy_wh", "energy_per_seq_uwh", "time_speedup_vs_naive",
     "energy_speedup_vs_naive", "energy_efficiency"}

(* a dict as correlate_power_with_experiments returns it: a slow naive     *)
(* measurement, a fast one for every other config                          *)
PowerRecord(operation, config) ==
    LET naive == config = "naive"
    IN  [operation |-> operation, config |-> config, scale |-> "Large",
         num_sequences |-> 10000,
         loop_duration_s |-> IF naive THEN <<4, 1>> ELSE <<2, 1>>,
         iterations |-> 1,
         sequences_processed |-> 10000,
         throughput_seqs_per_sec |-> IF naive THEN <<2500, 1>> ELSE <<5000, 1>>,
         cpu_power_mw |-> IF naive THEN <<5000, 1>> ELSE <<10000, 1>>,
         cpu_power_w |-> IF naive THEN <<5, 1>> ELSE <<10, 1>>,
         energy_wh |-> IF naive THEN <<1, 250>> ELSE <<1, 1000>>,
         energy_per_seq_uwh |-> IF naive THEN <<2, 5>> ELSE <<1, 10>>,
         power_samples_count |-> IF naive THEN 4 ELSE 2,
         timestamp |-> "2025-11-02T14:30:00"]

PowerOperations == {"base_counting", "gc_content"}
PowerConfigs == {"naive", "neon_8t", "amx"}

PowerRecords == {PowerRecord(o, c) : o \in PowerOperations, c \in PowerConfigs}

(* csv.DictWriter.writerow: str() of the value, '' for a key the dict      *)
(* does not have                                                           *)
EnrichedCell(row, c) ==
    IF c \notin DOMAIN row THEN <<>>
    ELSE IF c \in EnrichedFloatKeys THEN float_str(row[c])
    ELSE IF c \in EnrichedIntKeys THEN NatDigits(row[c])
    ELSE row[c]

EnrichedWrittenRow(row) ==
    [c \in {EnrichedFieldnames[k] : k \in DOMAIN EnrichedFieldnames} |->
        EnrichedCell(row, c)]

(* save_enriched_csv(experiments, output_path): the file after the call *)
save_enriched_csv(exps, existing) ==
    IF exps = <<>>
    THEN [file |-> existing, stderr |-> <<"error_no_experiments">>]
    ELSE [file |-> [header |-> EnrichedFieldnames,
                    rows |-> [i \in DOMAIN exps |-> EnrichedWrittenRow(exps[i])]],
          stderr |-> <<"saved_enriched_csv">>]

(* the rows of an enriched CSV whose groups had their naive record *)
EnrichedFileRows ==
    {EnrichedWrittenRow(WithEfficiency(r, <<4, 1>>, <<2, 5>>)) : r \in PowerRecords}

load_enriched_csv(file) == ReadFrom(file.rows, EnrichedSchema, 1, <<>>)

(* f"{exp['config']:8s}": left-aligned in a field *)
PadRight(text, width) == [text |-> text, width |-> width]

power_config_order == <<"naive", "neon", "neon_4t", "neon_8t">>

(* ['naive', 'neon', 'neon_4t', 'neon_8t'].index(e['config']): 0 stands    *)
(* for the ValueError of a config that is not in the list                  *)
ConfigIndex(config) ==
    IF \E k \in DOMAIN power_config_order : power_config_order[k] = config
    THEN CHOOSE k \in DOMAIN power_config_order : power_config_order[k] = config
    ELSE 0

(* sorted(scale_exps, key=...index(e['config'])): stable *)
SortedByConfigIndex(scale_exps) ==
    LET Of(v) == SelectSeq(scale_exps, LAMBDA e : ConfigIndex(e.config) = v)
    IN  Of(1) \o Of(2) \o Of(3) \o Of(4)

Thousand == <<1000, 1>>

PowerTableRow(exp) ==
    [kind |-> "table_row",
     config |-> PadRight(exp.config, 8),
     cpu_power_w |-> PadLeft(FormatFixed(exp.cpu_power_w, 1, FALSE), 6),
     energy_mwh |-> PadLeft(FormatFixed(PyMul(exp.energy_wh, Thousand), 3, FALSE), 7),
     energy_per_seq_uwh |-> PadLeft(FormatFixed(exp.energy_per_seq_uwh, 3, FALSE), 8),
     time_speedup |-> PadLeft(FormatFixed(exp.time_speedup_vs_naive, 1, FALSE), 6),
     energy_speedup |-> PadLeft(FormatFixed(exp.energy_speedup_vs_naive, 1, FALSE), 6),
     energy_efficiency |-> PadLeft(FormatFixed(exp.energy_efficiency, 2, FALSE), 6)]

(* st: [raised, document], what is written so far *)
Written(st, items) == [st EXCEPT !.document = st.document \o items]

Raising(st, exception) == [st EXCEPT !.raised = exception]

(* lines 88-101: the tables of one operation, one per scale *)
RECURSIVE PowerScaleSections(_, _, _, _)
PowerScaleSections(st, op_exps, scales, k) ==
    IF k > Len(scales) \/ st.raised # "none" THEN st
    ELSE LET scale_exps == SelectSeq(op_exps, LAMBDA e : e.scale = scales[k])
             headed == Written(st, <<[kind |-> "scale_heading", scale |-> scales[k],
                                      num_sequences |-> scale_exps[1].num_sequences],
                                     [kind |-> "table_header"]>>)
             sorted == SortedByConfigIndex(scale_exps)
         IN  IF \E j \in DOMAIN scale_exps : ConfigIndex(scale_exps[j].config) = 0
             THEN Raising(headed, "ValueError")
             ELSE PowerScaleSections(
                      Written(headed, [j \in DOMAIN sorted |-> PowerTableRow(sorted[j])]),
                      op_exps, scales, k + 1)

(* lines 80-103: the sections, one per operation *)
RECURSIVE PowerOperationSections(_, _, _, _)
PowerOperationSections(st, exps, operations, k) ==
    IF k > Len(operations) \/ st.raised # "none" THEN st
    ELSE LET op_exps == SelectSeq(exps, LAMBDA e : e.operation = operations[k])
             headed == Written(st, <<[kind |-> "operation_heading",
                                      operation |-> operations[k]]>>)
             tables == PowerScaleSections(
                           headed, op_exps,
                           SortedKeys({op_exps[j].scale : j \in DOMAIN op_exps}), 1)
         IN  IF tables.raised # "none" THEN tables
             ELSE PowerOperationSections(Written(tables, <<[kind |-> "rule"]>>),
                                         exps, operations, k + 1)

ColumnOf(exps, column) == [k \in DOMAIN exps |-> exps[k][column]]

(* lines 105-125: the average power of each config against naive *)
PowerDrawAnalysis(st, exps) ==
    LET headed == Written(st, <<[kind |-> "power_draw_analysis"]>>)
        PowerOf(config) ==
            ColumnOf(SelectSeq(exps, LAMBDA e : e.config = config), "cpu_power_w")
        naive_power == PyDiv(FloatSum(PowerOf("naive")), <<Len(PowerOf("naive")), 1>>)
        listed == SelectSeq(power_config_order,
                            LAMBDA c : c = "naive" \/ PowerOf(c) # <<>>)
        RowOf(config) ==
            LET avg_power == PyDiv(FloatSum(PowerOf(config)), <<Len(PowerOf(config)), 1>>)
                vs_naive == IF Gt0(naive_power) THEN PyDiv(avg_power, naive_power)
                            ELSE Zero
            IN  [kind |-> "power_row", config |-> PadRight(config, 14),
                 avg_power |-> PadLeft(FormatFixed(avg_power, 1, FALSE), 20),
                 vs_naive |-> PadLeft(FormatFixed(vs_naive, 2, FALSE), 8)]
    IN  IF st.raised # "none" THEN st
        ELSE IF IsFault(naive_power) THEN Raising(headed, "ZeroDivisionError")
        ELSE Written(headed, [k \in DOMAIN listed |-> RowOf(listed[k])]
                             \o <<[kind |-> "insight"], [kind |-> "rule"]>>)

TenThousand == <<10000, 1>>
Half == <<1, 2>>

(* lines 129-181: the extrapolation and the validation of the 300x claim,  *)
(* both from the first naive and the first neon_8t record of base_counting *)
(* at scale Large                                                          *)
EnvironmentalImpact(st, exps) ==
    LET base_counting_large ==
            SelectSeq(exps, LAMBDA e : e.operation = "base_counting" /\ e.scale = "Large")
        naives == SelectSeq(base_counting_large, LAMBDA e : e.config = "naive")
        optimizeds == SelectSeq(base_counting_large, LAMBDA e : e.config = "neon_8t")
        headed == Written(st, <<[kind |-> "environmental_impact"]>>)
        naive == naives[1]
        optimized == optimizeds[1]
        energy_saved_per_analysis == PySub(naive.energy_wh, optimized.energy_wh)
        annual_energy_saved_wh == PyMul(energy_saved_per_analysis, TenThousand)
        annual_co2_saved_kg == PyMul(PyDiv(annual_energy_saved_wh, Thousand), Half)
        field_energy_saved_kwh ==
            PyMul(PyDiv(annual_energy_saved_wh, Thousand), TenThousand)
        field_co2_saved_tons == PyDiv(PyMul(field_energy_saved_kwh, Half), Thousand)
        reduction == IF Gt0(optimized.energy_wh)
                     THEN PyDiv(naive.energy_wh, optimized.energy_wh) ELSE Zero
        naive_mwh == FormatFixed(PyMul(naive.energy_wh, Thousand), 3, FALSE)
        optimized_mwh == FormatFixed(PyMul(optimized.energy_wh, Thousand), 3, FALSE)
    IN  IF st.raised # "none" THEN st
        ELSE IF base_counting_large = <<>>
        THEN Written(headed, <<[kind |-> "rule"], [kind |-> "validation_of_claim"],
                               [kind |-> "rule"]>>)
        ELSE IF naives = <<>> \/ optimizeds = <<>>
        THEN Raising(headed, "StopIteration")
        ELSE Written(headed,
               <<[kind |-> "scenario", naive |-> naive_mwh, optimized |-> optimized_mwh,
                  saved |-> FormatFixed(PyMul(energy_saved_per_analysis, Thousand),
                                        3, FALSE)],
                 [kind |-> "per_lab_savings",
                  wh |-> FormatFixed(annual_energy_saved_wh, 1, FALSE),
                  kwh |-> FormatFixed(PyDiv(annual_energy_saved_wh, Thousand), 3, FALSE),
                  co2_kg |-> FormatFixed(annual_co2_saved_kg, 2, FALSE)],
                 [kind |-> "field_wide_impact",
                  kwh |-> FormatFixed(field_energy_saved_kwh, 1, FALSE),
                  co2_tons |-> FormatFixed(field_co2_saved_tons, 1, FALSE)],
                 [kind |-> "rule"],
                 [kind |-> "validation_of_claim"],
                 [kind |-> "our_measurements", naive |-> naive_mwh,
                  optimized |-> optimized_mwh,
                  reduction |-> FormatFixed(reduction, 1, FALSE),
                  conclusion |-> FormatFixed(reduction, 0, FALSE)],
                 [kind |-> "rule"]>>)

(* generate_power_findings.generate_findings(experiments, output_path,     *)
(* csv_path): what is written to the opened file, and the exception that   *)
(* ends the writing                                                        *)
power_generate_findings(exps, csv_name) ==
    LET all_configs == SelectSeq(exps, LAMBDA e : e.config # "naive")
        by_operation == {exps[i].operation : i \in DOMAIN exps}
        AvgOf(column) ==
            FormatFixed(Mean(ColumnOf(all_configs, column)),
                        IF column = "energy_efficiency" THEN 2 ELSE 1, FALSE)
        summary ==
            <<[kind |-> "title"],
              [kind |-> "executive_summary", total |-> Len(exps),
               operations |-> Cardinality(by_operation)]>>
            \o (IF all_configs # <<>>
                THEN <<[kind |-> "key_finding",
                        avg_time_speedup |-> AvgOf("time_speedup_vs_naive"),
                        avg_energy_speedup |-> AvgOf("energy_speedup_vs_naive"),
                        avg_energy_efficiency |-> AvgOf("energy_efficiency")]>>
                ELSE <<>>)
            \o <<[kind |-> "rule"], [kind |-> "results_by_operation"]>>
        sections == PowerOperationSections([raised |-> "none", document |-> summary],
                                           exps, SortedKeys(by_operation), 1)
        impact == EnvironmentalImpact(PowerDrawAnalysis(sections, exps), exps)
    IN  IF impact.raised # "none" THEN impact
        ELSE Written(impact, <<[kind |-> "next_steps"],
                               [kind |-> "generated", data_source |-> csv_name]>>)


----------------------------------------------------------------------------
(* analyze_amx.py figure 3 (parallel AMX scaling) and the summary files    *)

ScalingOperations == {"base_counting", "gc_content"}

ScaleSizes == [Tiny |-> 100, VeryLarge |-> 1000000]

ScalingRow(operation, backend, scale) ==
    [operation |-> operation, backend |-> backend, scale |-> scale,
     num_sequences |-> ScaleSizes[scale]]

(* the rows of both operations that figure 2 reads *)
VeryLargeRows ==
    << ScalingRow("base_counting", "neon", "VeryLarge"),
       ScalingRow("base_counting", "amx", "VeryLarge"),
       ScalingRow("gc_content", "neon", "VeryLarge"),
       ScalingRow("gc_content", "amx", "VeryLarge") >>

ScalingRows ==
    {ScalingRow(o, b, s) : o \in ScalingOperations, b \in {"naive", "parallel_amx"},
                           s \in {"Tiny", "VeryLarge"}}

(* line 135, scale_nums = [scale_nums[s] for s in op_data['scale']]:       *)
(* every s is looked up in what scale_nums is bound to, a str index of a   *)
(* list is a TypeError, and the name is bound to the new list              *)
ScalingXs(bound, frame, order) ==
    IF order = <<>>
    THEN [raised |-> "none", x |-> <<>>, bound |-> [kind |-> "list", value |-> <<>>]]
    ELSE IF bound.kind # "dict" THEN [raised |-> "TypeError", x |-> <<>>, bound |-> bound]
    ELSE LET looked == [k \in DOMAIN order |-> ScaleNum(frame[order[k]].scale)]
         IN  IF \E k \in DOMAIN looked : looked[k].raised # "none"
             THEN [raised |-> "KeyError", x |-> <<>>, bound |-> bound]
             ELSE LET x == [k \in DOMAIN looked |-> looked[k].value]
                  IN  [raised |-> "none", x |-> x,
                       bound |-> [kind |-> "list", value |-> x]]

(* lines 130-138: one line for every operation, in sorted order *)
RECURSIVE ParallelAmxScalingFrom(_, _, _, _)
ParallelAmxScalingFrom(st, frame, operations, k) ==
    IF k > Len(operations) \/ st.raised # "none" THEN st
    ELSE LET order == SortByNumSequences(frame,
                         {i \in DOMAIN frame :
                             /\ frame[i].operation = operations[k]
                             /\ frame[i].backend = "parallel_amx"})
             r == ScalingXs(st.bound, frame, order)
         IN  ParallelAmxScalingFrom(
                 [raised |-> r.raised, bound |-> r.bound,
                  plotted |-> IF r.raised # "none" THEN st.plotted
                              ELSE Append(st.plotted,
                                          [operation |-> operations[k], x |-> r.x])],
                 frame, operations, k + 1)

ParallelAmxScaling(bound, frame) ==
    ParallelAmxScalingFrom([raised |-> "none", bound |-> bound, plotted |-> <<>>],
                           frame, SortedKeys(UniqueOperations(frame)), 1)

(* lines 166-180: .iloc[0] of the VeryLarge rows of one operation and      *)
(* backend is an IndexError when there is none                             *)
HasVeryLarge(frame, operation, backend) ==
    \E i \in DOMAIN frame : /\ frame[i].operation = operation
                            /\ frame[i].scale = "VeryLarge"
                            /\ frame[i].backend = backend

SummaryBackends == <<"neon", "amx", "parallel_amx">>

----------------------------------------------------------------------------
(* Initial states: one per script and input *)

NoIo ==
    /\ exit_status = <<>>
    /\ stdout = <<>>
    /\ stderr = <<>>
    /\ raised = "none"
    /\ data_read = {}
    /\ outputs_written = {}

NoCli == argc = 0 /\ path_exists = <<>>

NoCompare ==
    /\ mac_csv = <<>> /\ graviton_csv = <<>>
    /\ mac_data = <<>> /\ graviton_data = <<>> /\ comparison = <<>>

NoEnergy == enriched_experiments = <<>> /\ result = <<>>

NoLoader == raised_args = <<>> /\ rows = <<>> /\ loaded = <<>>

NoComposition == lines = <<>> /\ df = <<>>

NoPowermetrics == log_lines = <<>> /\ samples = <<>>

NoOutput == output_dir_exists = TRUE /\ comparison_csv = None

NoTree == output_parent_exists = TRUE

NoExtract == power_csv = <<>> /\ baseline_csv = None

NoPipeline == files0 = <<>> /\ files = <<>> /\ procs = <<>>

NoCurves ==
    speedup_matrices = <<>> /\ amx_df = <<>> /\ amx_curves = <<>>

NoRegression ==
    /\ regression_csv = <<>> /\ df_filtered = <<>> /\ models = <<>>
    /\ best_model_name = None /\ prediction_model = None

NoSpeedups == composition_frame = <<>> /\ speedups = <<>>

NoPower ==
    enriched_csv = None /\ power_experiments = <<>> /\ power_findings = None

(* lines 77-78 bind scale_nums to the dict of scale_order *)
NoScaling == scale_nums_bound = [kind |-> "dict"] /\ parallel_amx_lines = <<>>

NoParallel ==
    parallel_df = <<>> /\ summary_best = <<>> /\ rule2_best = <<>> /\ rule3 = <<>>

InitCalculateSpeedups ==
    /\ script = "calculate_speedups"
    /\ pc = "call"
    /\ experiments \in SeqsUpTo(CsvRows, MaxExperiments)
    /\ NoIo /\ NoCli /\ NoCompare /\ NoEnergy /\ NoLoader /\ NoComposition
       /\ NoPowermetrics
       /\ NoOutput
       /\ NoTree
       /\ NoExtract
       /\ NoParallel
       /\ NoRegression
       /\ NoCurves
       /\ NoPipeline
       /\ NoSpeedups
       /\ NoPower
       /\ NoScaling

InitCalculateEnergyEfficiency ==
    /\ script = "calculate_energy_efficiency"
    /\ pc = "call"
    /\ enriched_experiments \in SeqsUpTo(EnrichedRows, MaxEnriched)
    /\ result = <<>>
    /\ experiments = <<>>
    /\ NoIo /\ NoCli /\ NoCompare /\ NoLoader /\ NoComposition
       /\ NoPowermetrics
       /\ NoOutput
       /\ NoTree
       /\ NoExtract
       /\ NoParallel
       /\ NoRegression
       /\ NoCurves
       /\ NoPipeline
       /\ NoSpeedups
       /\ NoPower
       /\ NoScaling

(* the files hold rows only when both exist; with the output directory     *)
(* missing, the rows matter only through the comparison being empty or not *)
InitCompareMacGraviton ==
    /\ script = "compare_mac_graviton"
    /\ pc = "main"
    /\ argc \in 0..MaxArgc
    /\ path_exists \in [1..Min({argc, 2}) -> BOOLEAN]
    /\ \E t \in DirectoryStates :
          output_parent_exists = t.parent_exists /\ output_dir_exists = t.dir_exists
    /\ IF argc = 2 /\ path_exists[1] /\ path_exists[2]
       THEN IF output_dir_exists
            THEN /\ mac_csv \in SeqsUpTo(CompareRows, MaxMac)
                 /\ graviton_csv \in SeqsUpTo(CompareRows, MaxGraviton)
                 /\ Len(mac_csv) + Len(graviton_csv) <= MaxCompareRows
            ELSE /\ mac_csv \in SeqsUpTo(CompareRows, MaxUnwritable)
                 /\ graviton_csv \in SeqsUpTo(CompareRows, MaxUnwritable)
       ELSE mac_csv = <<>> /\ graviton_csv = <<>>
    /\ mac_data = <<>> /\ graviton_data = <<>> /\ comparison = <<>>
    /\ comparison_csv = None
    /\ experiments = <<>>
    /\ NoIo /\ NoEnergy /\ NoLoader /\ NoComposition /\ NoPowermetrics
       /\ NoExtract
       /\ NoParallel
       /\ NoRegression
       /\ NoCurves
       /\ NoPipeline
       /\ NoSpeedups
       /\ NoPower
       /\ NoScaling

Loaders == {"load_comparison_csv", "load_enriched_csv", "load_pilot_csv"}

InitLoader ==
    /\ script \in Loaders
    /\ pc = "call"
    /\ rows \in SeqsUpTo(FileRows(SchemaOf(script)), MaxRows)
    /\ raised_args = <<>> /\ loaded = <<>>
    /\ experiments = <<>>
    /\ NoIo /\ NoCli /\ NoCompare /\ NoEnergy /\ NoComposition
       /\ NoPowermetrics
       /\ NoOutput
       /\ NoTree
       /\ NoExtract
       /\ NoParallel
       /\ NoRegression
       /\ NoCurves
       /\ NoPipeline
       /\ NoSpeedups
       /\ NoPower
       /\ NoScaling

(* the file holds lines only when its path is given and exists *)
InitAnalyzeComposition ==
    /\ script = "analyze_composition"
    /\ pc = "main"
    /\ argc \in 0..MaxArgc
    /\ path_exists \in [1..Min({argc, 1}) -> BOOLEAN]
    /\ IF argc >= 1 /\ path_exists[1]
       THEN lines \in SeqsUpTo(FileLines, MaxLines)
       ELSE lines = <<>>
    /\ df = <<>>
    /\ experiments = <<>>
    /\ NoIo /\ NoCompare /\ NoEnergy /\ NoLoader /\ NoPowermetrics /\ NoOutput
       /\ NoTree
       /\ NoExtract
       /\ NoParallel
       /\ NoRegression
       /\ NoCurves
       /\ NoPipeline
       /\ NoSpeedups
       /\ NoPower
       /\ NoScaling

(* statistical_analysis.py takes no argument and reads three fixed paths *)
InitStatisticalAnalysis ==
    /\ script = "statistical_analysis"
    /\ pc = "main"
    /\ argc = 0
    /\ path_exists \in [1..3 -> BOOLEAN]
    /\ experiments = <<>>
    /\ NoIo /\ NoCompare /\ NoEnergy /\ NoLoader /\ NoComposition
       /\ NoPowermetrics
       /\ NoOutput
       /\ NoTree
       /\ NoExtract
       /\ NoParallel
       /\ NoRegression
       /\ NoCurves
       /\ NoPipeline
       /\ NoSpeedups
       /\ NoPower
       /\ NoScaling

InitParsePowermetricsLog ==
    /\ script = "parse_powermetrics_log"
    /\ pc = "call"
    /\ log_lines \in SeqsUpTo(LogLines, MaxLogLines)
    /\ samples = <<>>
    /\ experiments = <<>>
    /\ NoIo /\ NoCli /\ NoCompare /\ NoEnergy /\ NoLoader /\ NoComposition
       /\ NoOutput
       /\ NoTree
       /\ NoExtract
       /\ NoParallel
       /\ NoRegression
       /\ NoCurves
       /\ NoPipeline
       /\ NoSpeedups
       /\ NoPower
       /\ NoScaling

InitExtractMacBaseline ==
    /\ script = "extract_mac_baseline"
    /\ pc = "main"
    /\ argc \in 0..MaxArgc
    /\ path_exists \in [1..Min({argc, 1}) -> BOOLEAN]
    /\ \E t \in DirectoryStates :
          output_parent_exists = t.parent_exists /\ output_dir_exists = t.dir_exists
    /\ IF argc = 1 /\ path_exists[1]
       THEN power_csv \in SeqsUpTo(PilotCsvRows, MaxPilot)
       ELSE power_csv = <<>>
    /\ baseline_csv = None /\ comparison_csv = None
    /\ experiments = <<>>
    /\ NoIo /\ NoCompare /\ NoEnergy /\ NoLoader /\ NoComposition /\ NoPowermetrics
       /\ NoParallel
       /\ NoRegression
       /\ NoCurves
       /\ NoPipeline
       /\ NoSpeedups
       /\ NoPower
       /\ NoScaling

(* analyze_amx.py takes no argument; its data file lies below results/, as *)
(* its output directory does                                               *)
InitAnalyzeAmx ==
    /\ script = "analyze_amx"
    /\ pc = "main"
    /\ argc = 0
    /\ path_exists \in [1..1 -> BOOLEAN]
    /\ \E t \in DirectoryStates :
          /\ path_exists[1] => t.parent_exists
          /\ output_parent_exists = t.parent_exists /\ output_dir_exists = t.dir_exists
    /\ comparison_csv = None
    /\ experiments = <<>>
    /\ NoIo /\ NoCompare /\ NoEnergy /\ NoLoader /\ NoComposition /\ NoPowermetrics
       /\ NoExtract
       /\ NoParallel
       /\ NoRegression
       /\ NoCurves
       /\ NoPipeline
       /\ NoSpeedups
       /\ NoPower
       /\ NoScaling

InitPublicationPlots ==
    /\ script = "generate_publication_plots"
    /\ pc = "main"
    /\ argc = 0 /\ path_exists = <<>>
    /\ \E t \in DirectoryStates :
          output_parent_exists = t.parent_exists /\ output_dir_exists = t.dir_exists
    /\ comparison_csv = None
    /\ experiments = <<>>
    /\ NoIo /\ NoCompare /\ NoEnergy /\ NoLoader /\ NoComposition /\ NoPowermetrics
       /\ NoExtract
       /\ NoParallel
       /\ NoRegression
       /\ NoCurves
       /\ NoPipeline
       /\ NoSpeedups
       /\ NoPower
       /\ NoScaling

(* analyze_parallel.py after pd.read_csv(csv_path) *)
InitAnalyzeParallel ==
    /\ script = "analyze_parallel"
    /\ pc = "loaded"
    /\ parallel_df \in SeqsUpTo(ParallelRows, MaxParallelRows)
    /\ summary_best = <<>> /\ rule2_best = <<>> /\ rule3 = <<>>
    /\ experiments = <<>>
    /\ NoIo /\ NoCli /\ NoCompare /\ NoEnergy /\ NoLoader /\ NoComposition
       /\ NoPowermetrics /\ NoOutput /\ NoTree /\ NoExtract
       /\ NoRegression
       /\ NoCurves
       /\ NoPipeline
       /\ NoSpeedups
       /\ NoPower
       /\ NoScaling

(* complexity_regression.py reads a fixed path *)
InitComplexityRegression ==
    /\ script = "complexity_regression"
    /\ pc = "main"
    /\ regression_csv \in RegressionFiles
    /\ df_filtered = <<>> /\ models = <<>>
    /\ best_model_name = None /\ prediction_model = None
    /\ experiments = <<>>
    /\ NoIo /\ NoCli /\ NoCompare /\ NoEnergy /\ NoLoader /\ NoComposition
       /\ NoPowermetrics /\ NoOutput /\ NoTree /\ NoExtract /\ NoParallel
       /\ NoCurves
       /\ NoPipeline
       /\ NoSpeedups
       /\ NoPower
       /\ NoScaling

(* analyze_amx.py after the data is read and the output directory made *)
InitAmxCurves ==
    /\ script = "analyze_amx"
    /\ pc = "pivots_printed"
    /\ amx_df \in SeqsUpTo(AmxRows, MaxAmxRows)
    /\ speedup_matrices = <<>> /\ amx_curves = <<>>
    /\ experiments = <<>>
    /\ NoIo /\ NoCli /\ NoCompare /\ NoEnergy /\ NoLoader /\ NoComposition
       /\ NoPowermetrics /\ NoOutput /\ NoTree /\ NoExtract /\ NoParallel
       /\ NoRegression
       /\ NoPipeline
       /\ NoSpeedups
       /\ NoPower
       /\ NoScaling

(* compare_mac_graviton.main after the two load_csv calls *)
InitComparePlatforms ==
    /\ script = "compare_mac_graviton"
    /\ pc = "loaded"
    /\ argc = 2 /\ path_exists = <<TRUE, TRUE>>
    /\ mac_csv \in SeqsUpTo(JoinRows, MaxJoinMac)
    /\ graviton_csv \in SeqsUpTo(JoinRows, MaxJoinGraviton)
    /\ mac_data = load_csv(mac_csv) /\ graviton_data = load_csv(graviton_csv)
    /\ comparison = <<>>
    /\ exit_status = <<>> /\ stdout = <<>> /\ stderr = <<>> /\ raised = "none"
    /\ data_read = {"argv1", "argv2"} /\ outputs_written = {}
    /\ experiments = <<>>
    /\ NoEnergy /\ NoLoader /\ NoComposition /\ NoPowermetrics /\ NoOutput
       /\ NoTree /\ NoExtract /\ NoParallel /\ NoRegression /\ NoCurves
       /\ NoPipeline /\ NoSpeedups /\ NoPower /\ NoScaling

(* analyze_composition.calculate_speedups called on a loaded frame: an     *)
(* optional complete group of operation B, then rows in any order          *)
InitCompositionSpeedups ==
    /\ script = "composition_calculate_speedups"
    /\ pc = "call"
    /\ \E complexity \in Complexities, head \in {<<>>, CompleteGroup} :
          \E tail \in SeqsUpTo(CompositionRows(complexity), MaxCompositionRows) :
             composition_frame = head \o tail
    /\ speedups = <<>>
    /\ experiments = <<>>
    /\ NoIo /\ NoCli /\ NoCompare /\ NoEnergy /\ NoLoader /\ NoComposition
       /\ NoPowermetrics /\ NoOutput /\ NoTree /\ NoExtract /\ NoParallel
       /\ NoRegression /\ NoCurves /\ NoPipeline
       /\ NoPower
       /\ NoScaling


(* parse_powermetrics.main after correlate_power_with_experiments has      *)
(* returned (line 247): the correlated records, no enriched CSV yet        *)
InitParsePowermetricsMain ==
    /\ script = "parse_powermetrics"
    /\ pc = "correlated"
    /\ argc = 2
    /\ path_exists = <<TRUE, TRUE>>
    /\ enriched_experiments \in SeqsUpTo(PowerRecords, MaxPowerRows)
    /\ result = <<>>
    /\ experiments = <<>>
    /\ NoIo /\ NoCompare /\ NoLoader /\ NoComposition
       /\ NoPowermetrics /\ NoOutput /\ NoTree /\ NoExtract /\ NoParallel
       /\ NoRegression /\ NoCurves /\ NoPipeline /\ NoSpeedups
       /\ NoPower
       /\ NoScaling

(* generate_power_findings.py <enriched_csv> on a CSV of rows whose        *)
(* columns are all filled, on one with the header alone, or on none        *)
InitGeneratePowerFindings ==
    /\ script = "generate_power_findings"
    /\ pc = "main"
    /\ argc = 1
    /\ \/ enriched_csv = None /\ path_exists = <<FALSE>>
       \/ /\ path_exists = <<TRUE>>
          /\ \E file_rows \in SeqsUpTo(EnrichedFileRows, MaxPowerRows) :
                enriched_csv = [header |-> EnrichedFieldnames, rows |-> file_rows]
    /\ power_experiments = <<>>
    /\ power_findings = None
    /\ experiments = <<>>
    /\ NoIo /\ NoCompare /\ NoEnergy /\ NoLoader /\ NoComposition
       /\ NoPowermetrics /\ NoOutput /\ NoTree /\ NoExtract /\ NoParallel
       /\ NoRegression /\ NoCurves /\ NoPipeline /\ NoSpeedups
       /\ NoScaling

InitPower ==
    \/ InitParsePowermetricsMain
    \/ InitGeneratePowerFindings


(* analyze_amx.py after figure 2 is saved (line 126): both operations have *)
(* their VeryLarge neon and amx rows, and every scale is in scale_order    *)
InitAmxScaling ==
    /\ script = "analyze_amx"
    /\ pc = "comparison_saved"
    /\ path_exists = <<TRUE>>
    /\ argc = 0
    /\ \E tail \in SeqsUpTo(ScalingRows, MaxScalingRows) :
          amx_df = VeryLargeRows \o tail
    /\ speedup_matrices = <<>> /\ amx_curves = <<>>
    /\ scale_nums_bound = [kind |-> "dict"]
    /\ parallel_amx_lines = <<>>
    /\ experiments = <<>>
    /\ exit_status = <<>>
    /\ stdout = <<"banner", "loaded">>
    /\ stderr = <<>>
    /\ raised = "none"
    /\ data_read = {"amx_clean.csv"}
    /\ outputs_written = {"amx_speedup_curves.png", "amx_vs_neon_comparison.png"}
    /\ NoCompare /\ NoEnergy /\ NoLoader /\ NoComposition
       /\ NoPowermetrics /\ NoOutput /\ NoTree /\ NoExtract /\ NoParallel
       /\ NoRegression /\ NoPipeline /\ NoSpeedups /\ NoPower


(* extract_mac_baseline.py <power_pilot_csv> on an existing file, with an  *)
(* output directory that may hold the mac_baseline.csv of an earlier run   *)
InitExtractBaseline ==
    /\ script = "extract_mac_baseline"
    /\ pc = "main"
    /\ argc = 1
    /\ path_exists = <<TRUE>>
    /\ power_csv \in SeqsUpTo(ExtractRows, MaxExtractRows)
    /\ \/ /\ baseline_csv = None
          /\ \E t \in DirectoryStates :
                output_parent_exists = t.parent_exists /\ output_dir_exists = t.dir_exists
       \/ /\ baseline_csv = EarlierBaseline
          /\ output_parent_exists = TRUE /\ output_dir_exists = TRUE
    /\ comparison_csv = None
    /\ experiments = <<>>
    /\ NoIo /\ NoCompare /\ NoEnergy /\ NoLoader /\ NoComposition
       /\ NoPowermetrics /\ NoParallel /\ NoRegression /\ NoCurves
       /\ NoPipeline /\ NoSpeedups /\ NoPower /\ NoScaling


InitAnalysis ==
    \/ InitAnalyzeParallel
    \/ InitComplexityRegression
    \/ InitAmxCurves

(* two runs of scripts, in any interleaving, on the files earlier runs left *)
InitPipeline ==
    /\ script = "pipeline"
    /\ pc = "running"
    /\ \E pilot_rows \in SeqsUpTo(PipelinePilotRows, MaxPipelineRows),
          graviton_rows \in GravitonFiles, earlier \in EarlierRuns :
          files0 = RunScripts(earlier, RawFiles(pilot_rows, graviton_rows))
    /\ files = files0
    /\ \E i, j \in DOMAIN PipelineScripts :
          /\ i <= j
          /\ procs = <<Ready(PipelineScripts[i]), Ready(PipelineScripts[j])>>
    /\ experiments = <<>>
    /\ NoIo /\ NoCli /\ NoCompare /\ NoEnergy /\ NoLoader /\ NoComposition
       /\ NoPowermetrics /\ NoOutput /\ NoTree /\ NoExtract /\ NoParallel
       /\ NoRegression /\ NoCurves
       /\ NoSpeedups
       /\ NoPower
       /\ NoScaling

Init ==
    \/ InitCalculateSpeedups
    \/ InitCompareMacGraviton
    \/ InitCalculateEnergyEfficiency
    \/ InitLoader
    \/ InitAnalyzeComposition
    \/ InitStatisticalAnalysis
    \/ InitParsePowermetricsLog
    \/ InitExtractMacBaseline
    \/ InitAnalyzeAmx
    \/ InitPublicationPlots

----------------------------------------------------------------------------
(* Actions *)

(* calculate_speedups(experiments) called on a loaded list *)
CalculateSpeedups ==
    /\ script = "calculate_speedups" /\ pc = "call"
    /\ experiments' = calculate_speedups(experiments)
    /\ IF SpeedupFaults(experiments')
       THEN pc' = "raised" /\ raised' = "ZeroDivisionError"
       ELSE pc' = "returned" /\ raised' = raised
    /\ UNCHANGED <<script, cli_vars, exit_status, stdout, stderr, data_read,
                   outputs_written, compare_vars, energy_vars, loader_vars,
                   composition_vars, powermetrics_vars, output_vars,
                   tree_vars, extract_vars, parallel_vars, regression_vars,
                   curves_vars, pipeline_vars, speedups_vars, power_vars,
                   scaling_vars>>

(* compare_mac_graviton.main up to the two load_csv calls *)
CompareMain ==
    /\ script = "compare_mac_graviton" /\ pc = "main"
    /\ IF argc # 2
       THEN /\ stdout' = Append(stdout, "usage")
            /\ exit_status' = <<1>> /\ pc' = "exit"
            /\ UNCHANGED <<mac_data, graviton_data, data_read>>
       ELSE IF ~path_exists[1] \/ ~path_exists[2]
       THEN /\ stdout' = Append(stdout, "error_not_found")
            /\ exit_status' = <<1>> /\ pc' = "exit"
            /\ UNCHANGED <<mac_data, graviton_data, data_read>>
       ELSE /\ mac_data' = load_csv(mac_csv)
            /\ graviton_data' = load_csv(graviton_csv)
            /\ data_read' = data_read \cup {"argv1", "argv2"}
            /\ pc' = "loaded"
            /\ UNCHANGED <<stdout, exit_status>>
    /\ UNCHANGED <<script, cli_vars, stderr, raised, outputs_written,
                   experiments, mac_csv, graviton_csv, comparison, energy_vars,
                   loader_vars, composition_vars, powermetrics_vars,
                   output_vars, tree_vars, extract_vars, parallel_vars,
                   regression_vars, curves_vars, pipeline_vars,
                   speedups_vars, power_vars, scaling_vars>>

(* comparison = compare_platforms(mac_data, graviton_data) *)
ComparePlatforms ==
    /\ script = "compare_mac_graviton" /\ pc = "loaded"
    /\ LET r == compare_platforms(mac_data, graviton_data)
       IN  /\ mac_data' = r.mac_data
           /\ graviton_data' = r.graviton_data
           /\ IF SpeedupFaults(r.mac_data) \/ SpeedupFaults(r.graviton_data)
                 \/ ComparisonFaults(r.comparison)
              THEN /\ comparison' = comparison
                   /\ raised' = "ZeroDivisionError"
                   /\ exit_status' = <<1>> /\ pc' = "exit"
              ELSE /\ comparison' = r.comparison
                   /\ pc' = "compared"
                   /\ UNCHANGED <<raised, exit_status>>
    /\ UNCHANGED <<script, cli_vars, stdout, stderr, data_read, outputs_written,
                   experiments, mac_csv, graviton_csv, energy_vars, loader_vars,
                   composition_vars, powermetrics_vars, output_vars,
                   tree_vars, extract_vars, parallel_vars, regression_vars,
                   curves_vars, pipeline_vars, speedups_vars, power_vars,
                   scaling_vars>>

(* calculate_energy_efficiency(enriched_experiments) called on a list *)
CalculateEnergyEfficiency ==
    /\ script = "calculate_energy_efficiency" /\ pc = "call"
    /\ LET st == calculate_energy_efficiency(enriched_experiments, stderr)
       IN  /\ enriched_experiments' = st.exps
           /\ stderr' = st.stderr
           /\ raised' = st.raised
           /\ IF st.raised # "none"
              THEN pc' = "raised" /\ result' = result
              ELSE pc' = "returned" /\ result' = st.result
    /\ UNCHANGED <<script, cli_vars, exit_status, stdout, data_read,
                   outputs_written, experiments, compare_vars, loader_vars,
                   composition_vars, powermetrics_vars, output_vars,
                   tree_vars, extract_vars, parallel_vars, regression_vars,
                   curves_vars, pipeline_vars, speedups_vars, power_vars,
                   scaling_vars>>

(* load_comparison_csv / load_enriched_csv / load_pilot_csv called on a file *)
LoadCsv(loader) ==
    /\ script = loader /\ pc = "call"
    /\ LET r == load_records(loader, rows)
       IN  /\ raised' = r.raised
           /\ raised_args' = r.args
           /\ loaded' = r.returned
           /\ pc' = IF r.raised = "none" THEN "returned" ELSE "raised"
    /\ UNCHANGED <<script, cli_vars, exit_status, stdout, stderr, data_read,
                   outputs_written, experiments, compare_vars, energy_vars, rows,
                   composition_vars, powermetrics_vars, output_vars,
                   tree_vars, extract_vars, parallel_vars, regression_vars,
                   curves_vars, pipeline_vars, speedups_vars, power_vars,
                   scaling_vars>>

(* analyze_composition.main up to the summary of the loaded frame *)
AnalyzeCompositionMain ==
    /\ script = "analyze_composition" /\ pc = "main"
    /\ IF argc < 1
       THEN /\ stdout' = Append(stdout, "usage")
            /\ exit_status' = <<1>> /\ pc' = "exit"
            /\ UNCHANGED <<stderr, raised, data_read, df>>
       ELSE IF ~path_exists[1]
       THEN /\ stdout' = Append(stdout, "banner")
            /\ raised' = "FileNotFoundError"
            /\ stderr' = Append(stderr, "traceback")
            /\ exit_status' = <<1>> /\ pc' = "exit"
            /\ UNCHANGED <<data_read, df>>
       ELSE /\ stdout' = stdout \o <<"banner", "loaded">>
            /\ df' = load_data(lines)
            /\ data_read' = data_read \cup {"argv1"}
            /\ pc' = "loaded"
            /\ UNCHANGED <<stderr, raised, exit_status>>
    /\ UNCHANGED <<script, cli_vars, outputs_written, experiments, compare_vars,
                   energy_vars, loader_vars, lines, powermetrics_vars,
                   output_vars, tree_vars, extract_vars, parallel_vars,
                   regression_vars, curves_vars, pipeline_vars,
                   speedups_vars, power_vars, scaling_vars>>

(* statistical_analysis.py, module level: the three load_batch_data calls, *)
(* pd.concat and the four len() prints                                     *)
BatchPaths == {1, 2, 3}

StatisticalAnalysisLoad ==
    /\ script = "statistical_analysis" /\ pc = "main"
    /\ LET missing == {b \in BatchPaths : ~path_exists[b]}
           warnings == [k \in 1..Cardinality(missing) |-> "warning_not_found"]
       IN  /\ data_read' = data_read \cup {<<"batch", b>> : b \in BatchPaths \ missing}
           /\ IF missing = {}
              THEN /\ stdout' = stdout \o <<"banner", "loaded">>
                   /\ pc' = "loaded"
                   /\ UNCHANGED <<raised, stderr, exit_status>>
              ELSE /\ stdout' = <<"banner">> \o warnings
                   /\ raised' = IF missing = BatchPaths THEN "ValueError" ELSE "TypeError"
                   /\ stderr' = Append(stderr, "traceback")
                   /\ exit_status' = <<1>> /\ pc' = "exit"
    /\ UNCHANGED <<script, cli_vars, outputs_written, experiments, compare_vars,
                   energy_vars, loader_vars, composition_vars,
                   powermetrics_vars, output_vars, tree_vars, extract_vars,
                   parallel_vars, regression_vars, curves_vars,
                   pipeline_vars, speedups_vars, power_vars, scaling_vars>>

(* parse_powermetrics_log(log_path) called on a log file *)
ParsePowermetricsLog ==
    /\ script = "parse_powermetrics_log" /\ pc = "call"
    /\ LET r == parse_powermetrics_log(log_lines, stderr)
       IN  samples' = r.samples /\ stderr' = r.stderr
    /\ pc' = "returned"
    /\ UNCHANGED <<script, cli_vars, exit_status, stdout, raised, data_read,
                   outputs_written, experiments, compare_vars, energy_vars,
                   loader_vars, composition_vars, log_lines, output_vars,
                   tree_vars, extract_vars, parallel_vars, regression_vars,
                   curves_vars, pipeline_vars, speedups_vars, power_vars,
                   scaling_vars>>

(* compare_mac_graviton.main, lines 176-179: write_comparison and          *)
(* print_summary                                                           *)
WriteComparison ==
    /\ script = "compare_mac_graviton" /\ pc = "compared"
    /\ LET w == write_comparison(comparison, output_dir_exists)
       IN  IF w.raised # "none"
           THEN /\ raised' = w.raised
                /\ raised_args' = [missing |-> "output_dir"]
                /\ stderr' = Append(stderr, "traceback")
                /\ exit_status' = <<1>> /\ pc' = "exit"
                /\ UNCHANGED <<comparison_csv, outputs_written>>
           ELSE /\ comparison_csv' = w.file
                /\ raised_args' = raised_args
                /\ outputs_written' =
                      IF w.file = None THEN outputs_written
                      ELSE outputs_written \cup {"mac_vs_graviton_comparison.csv"}
                /\ stderr' = stderr \o w.stderr \o print_summary(comparison)
                /\ exit_status' = <<0>> /\ pc' = "written"
                /\ raised' = raised
    /\ UNCHANGED <<script, cli_vars, stdout, data_read, experiments, compare_vars,
                   energy_vars, rows, loaded, composition_vars, powermetrics_vars,
                   output_dir_exists, tree_vars, extract_vars, parallel_vars,
                   regression_vars, curves_vars, pipeline_vars,
                   speedups_vars, power_vars, scaling_vars>>

(* generate_graviton_findings.load_comparison_csv on the written file *)
LoadWrittenComparison ==
    /\ script = "compare_mac_graviton" /\ pc = "written"
    /\ comparison_csv # None
    /\ LET r == load_comparison_csv(comparison_csv)
       IN  /\ raised' = r.raised
           /\ loaded' = r.returned
           /\ pc' = IF r.raised = "none" THEN "reloaded" ELSE "reload_raised"
    /\ UNCHANGED <<script, cli_vars, exit_status, stdout, stderr, data_read,
                   outputs_written, experiments, compare_vars, energy_vars,
                   raised_args, rows, composition_vars, powermetrics_vars,
                   output_vars, tree_vars, extract_vars, parallel_vars,
                   regression_vars, curves_vars, pipeline_vars,
                   speedups_vars, power_vars, scaling_vars>>

(* extract_mac_baseline.main *)
ExtractMacBaselineMain ==
    /\ script = "extract_mac_baseline" /\ pc = "main"
    /\ IF argc # 1
       THEN /\ stdout' = Append(stdout, "usage")
            /\ exit_status' = <<1>> /\ pc' = "exit"
            /\ UNCHANGED <<stderr, data_read, outputs_written, output_dir_exists,
                           output_parent_exists, baseline_csv>>
       ELSE IF ~path_exists[1]
       THEN /\ stdout' = Append(stdout, "error_not_found")
            /\ exit_status' = <<1>> /\ pc' = "exit"
            /\ UNCHANGED <<stderr, data_read, outputs_written, output_dir_exists,
                           output_parent_exists, baseline_csv>>
       ELSE LET d == mkdir(TRUE, TRUE, output_parent_exists, output_dir_exists)
                w == extract_mac_baseline(power_csv)
            IN  /\ output_parent_exists' = d.parent_exists
                /\ output_dir_exists' = d.dir_exists
                /\ data_read' = data_read \cup {"argv1"}
                /\ baseline_csv' = IF w.file = None THEN baseline_csv ELSE w.file
                /\ outputs_written' =
                      IF w.file = None THEN outputs_written
                      ELSE outputs_written \cup {"mac_baseline.csv"}
                /\ stderr' = stderr \o w.stderr
                /\ exit_status' = <<0>> /\ pc' = "written"
                /\ stdout' = stdout
    /\ UNCHANGED <<script, cli_vars, raised, experiments, compare_vars, energy_vars,
                   loader_vars, composition_vars, powermetrics_vars, comparison_csv,
                   power_csv, parallel_vars, regression_vars, curves_vars,
                   pipeline_vars, speedups_vars, power_vars, scaling_vars>>

(* analyze_amx.py, lines 19-31: pd.read_csv(data_file), then               *)
(* output_dir.mkdir(exist_ok=True)                                         *)
AnalyzeAmxOutputDir ==
    /\ script = "analyze_amx" /\ pc = "main"
    /\ IF ~path_exists[1]
       THEN /\ stdout' = Append(stdout, "banner")
            /\ raised' = "FileNotFoundError"
            /\ raised_args' = [missing |-> "input"]
            /\ stderr' = Append(stderr, "traceback")
            /\ exit_status' = <<1>> /\ pc' = "exit"
            /\ UNCHANGED <<data_read, output_dir_exists, output_parent_exists>>
       ELSE LET d == mkdir(FALSE, TRUE, output_parent_exists, output_dir_exists)
            IN  /\ stdout' = stdout \o <<"banner", "loaded">>
                /\ data_read' = data_read \cup {"amx_clean.csv"}
                /\ output_parent_exists' = d.parent_exists
                /\ output_dir_exists' = d.dir_exists
                /\ IF d.raised # "none"
                   THEN /\ raised' = d.raised
                        /\ raised_args' = [missing |-> "output_dir"]
                        /\ stderr' = Append(stderr, "traceback")
                        /\ exit_status' = <<1>> /\ pc' = "exit"
                   ELSE /\ pc' = "output_dir_created"
                        /\ UNCHANGED <<raised, raised_args, stderr, exit_status>>
    /\ UNCHANGED <<script, cli_vars, outputs_written, experiments, compare_vars,
                   energy_vars, rows, loaded, composition_vars, powermetrics_vars,
                   comparison_csv, extract_vars, parallel_vars,
                   regression_vars, curves_vars, pipeline_vars,
                   speedups_vars, power_vars, scaling_vars>>

(* generate_publication_plots.main, lines 443-450: create_output_dir() *)
PublicationPlotsOutputDir ==
    /\ script = "generate_publication_plots" /\ pc = "main"
    /\ LET d == mkdir(TRUE, TRUE, output_parent_exists, output_dir_exists)
       IN  /\ output_parent_exists' = d.parent_exists
           /\ output_dir_exists' = d.dir_exists
    /\ stdout' = stdout \o <<"banner", "output_directory">>
    /\ pc' = "output_dir_created"
    /\ UNCHANGED <<script, cli_vars, exit_status, stderr, raised, data_read,
                   outputs_written, experiments, compare_vars, energy_vars,
                   loader_vars, composition_vars, powermetrics_vars, comparison_csv,
                   extract_vars, parallel_vars, regression_vars, curves_vars,
                   pipeline_vars, speedups_vars, power_vars, scaling_vars>>

(* analyze_parallel.py: the best rows of lines 330-333 and the decision    *)
(* rules 2 and 3 of lines 422-462                                          *)
AnalyzeParallelRules ==
    /\ script = "analyze_parallel" /\ pc = "matrices"
    /\ summary_best' = SummaryBest(parallel_df)
    /\ rule2_best' = Rule2Best(parallel_df)
    /\ rule3' = Rule3(parallel_df)
    /\ outputs_written' = outputs_written \cup {"summary_statistics.txt",
                                                "decision_rules.txt"}
    /\ pc' = "complete"
    /\ UNCHANGED <<script, cli_vars, exit_status, stdout, stderr, raised, data_read,
                   experiments, compare_vars, energy_vars, loader_vars,
                   composition_vars, powermetrics_vars, output_vars, tree_vars,
                   extract_vars, parallel_df, regression_vars, curves_vars,
                   pipeline_vars, speedups_vars, power_vars, scaling_vars>>

(* complexity_regression.main: load_data() *)
RegressionLoadData ==
    /\ script = "complexity_regression" /\ pc = "main"
    /\ df_filtered' = regression_load_data(regression_csv)
    /\ data_read' = data_read \cup {"n5_complexity_data.csv"}
    /\ stdout' = stdout \o <<"banner", "loaded">>
    /\ pc' = "loaded"
    /\ UNCHANGED <<script, cli_vars, exit_status, stderr, raised, outputs_written,
                   experiments, compare_vars, energy_vars, loader_vars,
                   composition_vars, powermetrics_vars, output_vars, tree_vars,
                   extract_vars, parallel_vars, regression_csv, models,
                   best_model_name, prediction_model, curves_vars,
                   pipeline_vars, speedups_vars, power_vars, scaling_vars>>

(* complexity_regression.main: exploratory_analysis(df, df_filtered), then *)
(* build_models(df_filtered)                                               *)
RegressionBuildModels ==
    /\ script = "complexity_regression" /\ pc = "loaded"
    /\ \E fitted \in [{EvaluationOrder[k] : k \in DOMAIN EvaluationOrder}
                        -> [r2 : Scores, cv : Scores]] :
          LET e == exploratory_analysis(df_filtered)
              b == IF e.raised # "none"
                   THEN [raised |-> e.raised, models |-> <<>>, best |-> None,
                         args |-> e.args]
                   ELSE build_models(df_filtered, fitted)
          IN  /\ models' = b.models
              /\ raised' = b.raised
              /\ raised_args' = b.args
              /\ IF b.raised # "none"
                 THEN /\ best_model_name' = None
                      /\ stderr' = Append(stderr, "traceback")
                      /\ exit_status' = <<1>> /\ pc' = "exit"
                      /\ stdout' = stdout
                 ELSE /\ best_model_name' = b.best
                      /\ stdout' = Append(stdout, "best_model")
                      /\ pc' = "built"
                      /\ UNCHANGED <<stderr, exit_status>>
    /\ UNCHANGED <<script, cli_vars, data_read, outputs_written, experiments,
                   compare_vars, energy_vars, rows, loaded, composition_vars,
                   powermetrics_vars, output_vars, tree_vars, extract_vars,
                   parallel_vars, regression_csv, df_filtered, prediction_model,
                   curves_vars, pipeline_vars, speedups_vars, power_vars,
                   scaling_vars>>

(* complexity_regression.main: prediction_analysis(df_filtered, models) *)
RegressionPredictionAnalysis ==
    /\ script = "complexity_regression" /\ pc = "built"
    /\ prediction_model' = <<prediction_analysis_model(models)>>
    /\ outputs_written' = outputs_written \cup {"complexity_predictions.png"}
    /\ pc' = "predicted"
    /\ UNCHANGED <<script, cli_vars, exit_status, stdout, stderr, raised, data_read,
                   experiments, compare_vars, energy_vars, loader_vars,
                   composition_vars, powermetrics_vars, output_vars, tree_vars,
                   extract_vars, parallel_vars, regression_csv, df_filtered, models,
                   best_model_name, curves_vars, pipeline_vars,
                   speedups_vars, power_vars, scaling_vars>>

(* analyze_parallel.py section 1: the speedup matrices *)
AnalyzeParallelMatrices ==
    /\ script = "analyze_parallel" /\ pc = "loaded"
    /\ speedup_matrices' = SpeedupMatrices(parallel_df)
    /\ outputs_written' = outputs_written \cup {"speedup_matrices.txt"}
    /\ stdout' = Append(stdout, "speedup_matrices")
    /\ pc' = "matrices"
    /\ UNCHANGED <<script, cli_vars, exit_status, stderr, raised, data_read,
                   experiments, compare_vars, energy_vars, loader_vars,
                   composition_vars, powermetrics_vars, output_vars, tree_vars,
                   extract_vars, parallel_vars, regression_vars, amx_df, amx_curves,
                   pipeline_vars, speedups_vars, power_vars, scaling_vars>>

(* analyze_amx.py figure 1: the speedup curves *)
AmxSpeedupCurves ==
    /\ script = "analyze_amx" /\ pc = "pivots_printed"
    /\ LET c == SpeedupCurves(amx_df)
       IN  /\ amx_curves' = c.curves
           /\ raised' = c.raised
           /\ IF c.raised # "none"
              THEN /\ stderr' = Append(stderr, "traceback")
                   /\ exit_status' = <<1>> /\ pc' = "exit"
                   /\ UNCHANGED outputs_written
              ELSE /\ outputs_written' = outputs_written \cup {"amx_speedup_curves.png"}
                   /\ pc' = "curves_saved"
                   /\ UNCHANGED <<stderr, exit_status>>
    /\ UNCHANGED <<script, cli_vars, stdout, data_read, experiments, compare_vars,
                   energy_vars, loader_vars, composition_vars, powermetrics_vars,
                   output_vars, tree_vars, extract_vars, parallel_vars,
                   regression_vars, speedup_matrices, amx_df, pipeline_vars,
                   speedups_vars, power_vars, scaling_vars>>

(* a run of a script reads: main up to the end of its reading *)
PipelineLoad(p) ==
    /\ script = "pipeline" /\ procs[p].pc = "ready"
    /\ LET l == ScriptLoad(procs[p].script, files)
           other == procs[3 - p]
       IN  procs' = [procs EXCEPT
                        ![p] = [@ EXCEPT !.pc = l.pc, !.data = l.data,
                                         !.after_other = Ended(other),
                                         !.files_after =
                                            IF l.pc = "loaded" THEN <<>> ELSE files]]
    /\ UNCHANGED <<script, pc, cli_vars, exit_status, stdout, stderr, raised,
                   data_read, outputs_written, experiments, compare_vars,
                   energy_vars, loader_vars, composition_vars, powermetrics_vars,
                   output_vars, tree_vars, extract_vars, parallel_vars,
                   regression_vars, curves_vars, files0, files,
                   speedups_vars, power_vars, scaling_vars>>

(* a run of a script writes its output and ends *)
PipelineWrite(p) ==
    /\ script = "pipeline" /\ procs[p].pc = "loaded"
    /\ files' = ScriptWrite(procs[p].script, procs[p].data, files)
    /\ procs' = [procs EXCEPT ![p] = [@ EXCEPT !.pc = "done", !.files_after = files']]
    /\ UNCHANGED <<script, pc, cli_vars, exit_status, stdout, stderr, raised,
                   data_read, outputs_written, experiments, compare_vars,
                   energy_vars, loader_vars, composition_vars, powermetrics_vars,
                   output_vars, tree_vars, extract_vars, parallel_vars,
                   regression_vars, curves_vars, files0, speedups_vars,
                   power_vars, scaling_vars>>

NextPipeline ==
    \/ \E p \in DOMAIN procs : PipelineLoad(p)
    \/ \E p \in DOMAIN procs : PipelineWrite(p)

SpecPipeline == InitPipeline /\ [][NextPipeline]_vars

(* speedups = calculate_speedups(df) of analyze_composition *)
CompositionCalculateSpeedups ==
    /\ script = "composition_calculate_speedups" /\ pc = "call"
    /\ speedups' = composition_calculate_speedups(composition_frame)
    /\ pc' = "returned"
    /\ UNCHANGED <<script, cli_vars, exit_status, stdout, stderr, raised,
                   data_read, outputs_written, experiments, compare_vars,
                   energy_vars, loader_vars, composition_vars,
                   powermetrics_vars, output_vars, tree_vars, extract_vars,
                   parallel_vars, regression_vars, curves_vars, pipeline_vars,
                   composition_frame, power_vars, scaling_vars>>

NextComposition == CompositionCalculateSpeedups

SpecComposition == InitCompositionSpeedups /\ [][NextComposition]_vars


(* parse_powermetrics.main, lines 249-260: calculate_energy_efficiency,    *)
(* then save_enriched_csv                                                  *)
ParsePowermetricsSave ==
    /\ script = "parse_powermetrics" /\ pc = "correlated"
    /\ LET st == calculate_energy_efficiency(
                     enriched_experiments, Append(stderr, "calculating_efficiency"))
           with_efficiency == [j \in DOMAIN st.result |-> st.exps[st.result[j]]]
           w == save_enriched_csv(with_efficiency, enriched_csv)
       IN  /\ enriched_experiments' = st.exps
           /\ raised' = st.raised
           /\ IF st.raised # "none"
              THEN /\ stderr' = Append(st.stderr, "traceback")
                   /\ exit_status' = <<1>> /\ pc' = "exit"
                   /\ UNCHANGED <<result, enriched_csv, outputs_written>>
              ELSE /\ result' = st.result
                   /\ enriched_csv' = w.file
                   /\ outputs_written' =
                         IF with_efficiency = <<>> THEN outputs_written
                         ELSE outputs_written \cup {"power_enriched.csv"}
                   /\ stderr' = st.stderr \o w.stderr \o <<"analysis_complete">>
                   /\ exit_status' = <<0>> /\ pc' = "saved"
    /\ UNCHANGED <<script, cli_vars, stdout, data_read, experiments,
                   compare_vars, loader_vars, composition_vars,
                   powermetrics_vars, output_vars, tree_vars, extract_vars,
                   parallel_vars, regression_vars, curves_vars, pipeline_vars,
                   speedups_vars, power_experiments, power_findings,
                   scaling_vars>>

(* "Next: python analysis/generate_power_findings.py": the script is run   *)
(* on the enriched CSV path of the finished parse_powermetrics run         *)
StartGeneratePowerFindings ==
    /\ script = "parse_powermetrics" /\ pc = "saved"
    /\ script' = "generate_power_findings" /\ pc' = "main"
    /\ argc' = 1
    /\ path_exists' = <<enriched_csv # None>>
    /\ exit_status' = <<>> /\ stdout' = <<>> /\ stderr' = <<>>
    /\ data_read' = {} /\ outputs_written' = {}
    /\ UNCHANGED <<raised, experiments, compare_vars, energy_vars,
                   loader_vars, composition_vars, powermetrics_vars,
                   output_vars, tree_vars, extract_vars, parallel_vars,
                   regression_vars, curves_vars, pipeline_vars,
                   speedups_vars, power_vars, scaling_vars>>

(* generate_power_findings.main: load_enriched_csv, then generate_findings *)
(* into FINDINGS.md next to the CSV                                        *)
GeneratePowerFindingsMain ==
    /\ script = "generate_power_findings" /\ pc = "main"
    /\ IF argc # 1
       THEN /\ stdout' = Append(stdout, "usage")
            /\ exit_status' = <<1>> /\ pc' = "exit"
            /\ UNCHANGED <<stderr, raised, data_read, outputs_written,
                           power_experiments, power_findings>>
       ELSE IF ~path_exists[1]
       THEN /\ stdout' = Append(stdout, "error_not_found")
            /\ exit_status' = <<1>> /\ pc' = "exit"
            /\ UNCHANGED <<stderr, raised, data_read, outputs_written,
                           power_experiments, power_findings>>
       ELSE LET r == load_enriched_csv(enriched_csv)
                g == power_generate_findings(r.returned, "power_enriched.csv")
            IN  /\ data_read' = data_read \cup {"argv1"}
                /\ stdout' = stdout
                /\ IF r.raised # "none"
                   THEN /\ raised' = r.raised
                        /\ stderr' = stderr \o <<"loading", "traceback">>
                        /\ exit_status' = <<1>> /\ pc' = "exit"
                        /\ UNCHANGED <<outputs_written, power_experiments,
                                       power_findings>>
                   ELSE /\ power_experiments' = r.returned
                        /\ power_findings' = g.document
                        /\ outputs_written' = outputs_written \cup {"FINDINGS.md"}
                        /\ raised' = g.raised
                        /\ IF g.raised # "none"
                           THEN /\ stderr' = stderr \o <<"loading", "loaded",
                                                         "generating", "traceback">>
                                /\ exit_status' = <<1>> /\ pc' = "exit"
                           ELSE /\ stderr' = stderr \o <<"loading", "loaded",
                                                         "generating", "generated_findings",
                                                         "findings_generated">>
                                /\ exit_status' = <<0>> /\ pc' = "generated"
    /\ UNCHANGED <<script, cli_vars, experiments, compare_vars, energy_vars,
                   loader_vars, composition_vars, powermetrics_vars,
                   output_vars, tree_vars, extract_vars, parallel_vars,
                   regression_vars, curves_vars, pipeline_vars,
                   speedups_vars, enriched_csv, scaling_vars>>

NextPower ==
    \/ ParsePowermetricsSave
    \/ StartGeneratePowerFindings
    \/ GeneratePowerFindingsMain

SpecPower == InitPower /\ [][NextPower]_vars


(* analyze_amx.py figure 3, lines 128-149 *)
AmxParallelScaling ==
    /\ script = "analyze_amx" /\ pc = "comparison_saved"
    /\ LET r == ParallelAmxScaling(scale_nums_bound, amx_df)
       IN  /\ scale_nums_bound' = r.bound
           /\ parallel_amx_lines' = r.plotted
           /\ raised' = r.raised
           /\ IF r.raised # "none"
              THEN /\ stderr' = Append(stderr, "traceback")
                   /\ exit_status' = <<1>> /\ pc' = "exit"
                   /\ UNCHANGED <<stdout, outputs_written>>
              ELSE /\ outputs_written' = outputs_written \cup {"parallel_amx_scaling.png"}
                   /\ stdout' = Append(stdout, "saved_parallel_amx_scaling")
                   /\ pc' = "scaling_saved"
                   /\ UNCHANGED <<stderr, exit_status>>
    /\ UNCHANGED <<script, cli_vars, data_read, experiments, compare_vars,
                   energy_vars, loader_vars, composition_vars, powermetrics_vars,
                   output_vars, tree_vars, extract_vars, parallel_vars,
                   regression_vars, curves_vars, pipeline_vars,
                   speedups_vars, power_vars>>

(* analyze_amx.py, lines 151-218: amx_summary.txt, then                    *)
(* amx_decision_rules.txt                                                  *)
AmxSummary ==
    /\ script = "analyze_amx" /\ pc = "scaling_saved"
    /\ IF \E op \in UniqueOperations(amx_df) :
             \E k \in DOMAIN SummaryBackends :
                ~HasVeryLarge(amx_df, op, SummaryBackends[k])
       THEN /\ raised' = "IndexError"
            /\ outputs_written' = outputs_written \cup {"amx_summary.txt"}
            /\ stdout' = Append(stdout, "summary_statistics")
            /\ stderr' = Append(stderr, "traceback")
            /\ exit_status' = <<1>> /\ pc' = "exit"
       ELSE /\ outputs_written' =
                  outputs_written \cup {"amx_summary.txt", "amx_decision_rules.txt"}
            /\ stdout' = stdout \o <<"summary_statistics", "saved_summary",
                                      "decision_rules", "saved_rules",
                                      "analysis_complete">>
            /\ exit_status' = <<0>> /\ pc' = "complete"
            /\ UNCHANGED <<raised, stderr>>
    /\ UNCHANGED <<script, cli_vars, data_read, experiments, compare_vars,
                   energy_vars, loader_vars, composition_vars, powermetrics_vars,
                   output_vars, tree_vars, extract_vars, parallel_vars,
                   regression_vars, curves_vars, pipeline_vars,
                   speedups_vars, power_vars, scaling_vars>>

NextScaling ==
    \/ AmxParallelScaling
    \/ AmxSummary

SpecScaling == InitAmxScaling /\ [][NextScaling]_vars


(* extract_mac_baseline.py run once more, on the mac_baseline.csv that the *)
(* run before wrote: the file is read to its end before it is opened for   *)
(* writing                                                                 *)
ExtractMacBaselineAgain ==
    /\ script = "extract_mac_baseline" /\ pc = "written"
    /\ "mac_baseline.csv" \in outputs_written
    /\ LET d == mkdir(TRUE, TRUE, output_parent_exists, output_dir_exists)
           w == extract_mac_baseline(baseline_csv.rows)
       IN  /\ output_parent_exists' = d.parent_exists
           /\ output_dir_exists' = d.dir_exists
           /\ data_read' = data_read \cup {"mac_baseline.csv"}
           /\ baseline_csv' = IF w.file = None THEN baseline_csv ELSE w.file
           /\ stderr' = stderr \o w.stderr
           /\ exit_status' = <<0>> /\ pc' = "rewritten"
    /\ UNCHANGED <<script, cli_vars, stdout, outputs_written, raised, experiments,
                   compare_vars, energy_vars, loader_vars, composition_vars,
                   powermetrics_vars, comparison_csv, power_csv, parallel_vars,
                   regression_vars, curves_vars, pipeline_vars, speedups_vars,
                   power_vars, scaling_vars>>

NextExtract ==
    \/ ExtractMacBaselineMain
    \/ ExtractMacBaselineAgain

SpecExtract == InitExtractBaseline /\ [][NextExtract]_vars


NextJoin == ComparePlatforms

SpecJoin == InitComparePlatforms /\ [][NextJoin]_vars

NextAnalysis ==
    \/ AnalyzeParallelMatrices
    \/ AnalyzeParallelRules
    \/ AmxSpeedupCurves
    \/ RegressionLoadData
    \/ RegressionBuildModels
    \/ RegressionPredictionAnalysis

SpecAnalysis == InitAnalysis /\ [][NextAnalysis]_vars

Next ==
    \/ CalculateSpeedups
    \/ CompareMain
    \/ ComparePlatforms
    \/ CalculateEnergyEfficiency
    \/ LoadCsv("load_comparison_csv")
    \/ LoadCsv("load_enriched_csv")
    \/ LoadCsv("load_pilot_csv")
    \/ AnalyzeCompositionMain
    \/ StatisticalAnalysisLoad
    \/ ParsePowermetricsLog
    \/ WriteComparison
    \/ LoadWrittenComparison
    \/ ExtractMacBaselineMain
    \/ AnalyzeAmxOutputDir
    \/ PublicationPlotsOutputDir

Spec == Init /\ [][Next]_vars

----------------------------------------------------------------------------
(* Properties *)

(* the list calculate_speedups has returned, in either of its callers *)
SpeedupLists ==
    (IF script = "calculate_speedups" /\ pc = "returned" THEN {experiments} ELSE {})
    \cup (IF script = "compare_mac_graviton" /\ pc = "compared"
          THEN {mac_data, graviton_data} ELSE {})

(* the baseline of a group as the Baseline Joiner defines it: the first    *)
(* record of the group, in input order, with config == 'naive'; 0 if none  *)
FirstNaiveIndex(exps, key) ==
    IF NaiveIndices(exps, key) = {} THEN 0 ELSE Min(NaiveIndices(exps, key))

(* C1: every record whose group has a naive baseline with throughput > 0   *)
(* gets speedup_vs_naive = its throughput / the baseline's throughput, the *)
(* baseline being the group's naive record (the first one in input order   *)
(* when there are several).                                                *)
C1_SpeedupIsThroughputOverBaseline ==
    \A exps \in SpeedupLists : \A i \in DOMAIN exps :
        LET b == FirstNaiveIndex(exps, GroupKey(exps[i]))
        IN  (b # 0 /\ Gt0(PyFloat(exps[b].throughput_seqs_per_sec)))
            => exps[i].speedup_vs_naive =
                   Frac(FloatTable[exps[i].throughput_seqs_per_sec],
                        FloatTable[exps[b].throughput_seqs_per_sec])

C3_BaselineRatioIsOne ==
    /\ \A exps \in SpeedupLists : \A i \in DOMAIN exps :
          (/\ i = FirstNaiveIndex(exps, GroupKey(exps[i]))
           /\ Gt0(PyFloat(exps[i].throughput_seqs_per_sec)))
          => exps[i].speedup_vs_naive = One
    /\ (script = "calculate_energy_efficiency" /\ pc = "returned")
          => \A i \in DOMAIN enriched_experiments :
                enriched_experiments[i].config = "naive"
                => /\ "time_speedup_vs_naive" \in DOMAIN enriched_experiments[i]
                   /\ enriched_experiments[i].time_speedup_vs_naive = One
                   /\ enriched_experiments[i].energy_speedup_vs_naive = One
                   /\ enriched_experiments[i].energy_efficiency = One

(* C4: for a group with no naive record, every record of the group gets    *)
(* each derived metric set to 1.0, a warning is written to stderr and      *)
(* nothing is raised, in calculate_speedups and calculate_energy_efficiency*)
HasNoBaselineGroup(exps) ==
    \E i \in DOMAIN exps : NaiveIndices(exps, GroupKey(exps[i])) = {}

C4_NoBaselineNeutralAndWarned ==
    /\ (script = "calculate_speedups" /\ pc \in {"returned", "raised"}
        /\ HasNoBaselineGroup(experiments))
          => /\ raised = "none"
             /\ \A i \in DOMAIN experiments :
                   NaiveIndices(experiments, GroupKey(experiments[i])) = {}
                   => experiments[i].speedup_vs_naive = One
             /\ stderr # <<>>
    /\ (script = "calculate_energy_efficiency" /\ pc = "returned"
        /\ HasNoBaselineGroup(enriched_experiments))
          => /\ \A i \in DOMAIN enriched_experiments :
                   NaiveIndices(enriched_experiments,
                                GroupKey(enriched_experiments[i])) = {}
                   => /\ {"time_speedup_vs_naive", "energy_speedup_vs_naive",
                          "energy_efficiency"} \subseteq DOMAIN enriched_experiments[i]
                      /\ enriched_experiments[i].time_speedup_vs_naive = One
                      /\ enriched_experiments[i].energy_speedup_vs_naive = One
                      /\ enriched_experiments[i].energy_efficiency = One
             /\ stderr # <<>>

(* C5: when a group has several naive records, the first one in input      *)
(* order is the baseline of every ratio of the group, in calculate_speedups*)
(* and in calculate_energy_efficiency.                                     *)
C5_FirstNaiveIsBaseline ==
    /\ \A exps \in SpeedupLists : \A i \in DOMAIN exps :
          LET b == FirstNaiveIndex(exps, GroupKey(exps[i]))
              base == PyFloat(exps[b].throughput_seqs_per_sec)
          IN  b # 0
              => exps[i].speedup_vs_naive =
                    (IF Gt0(base)
                     THEN PyDiv(PyFloat(exps[i].throughput_seqs_per_sec), base)
                     ELSE Zero)
    /\ (script = "calculate_energy_efficiency" /\ pc = "returned")
          => \A i \in DOMAIN enriched_experiments :
                LET e == enriched_experiments[i]
                    b == FirstNaiveIndex(enriched_experiments, GroupKey(e))
                    naive == enriched_experiments[b]
                IN  (b # 0 /\ e.config # "naive")
                    => /\ e.time_speedup_vs_naive =
                            (IF Gt0(TimePerIteration(e))
                             THEN PyDiv(TimePerIteration(naive), TimePerIteration(e))
                             ELSE Zero)
                       /\ e.energy_speedup_vs_naive =
                            (IF Gt0(e.energy_per_seq_uwh)
                             THEN PyDiv(naive.energy_per_seq_uwh, e.energy_per_seq_uwh)
                             ELSE Zero)

(* C6: the baseline-joining functions leave their input records unchanged: *)
(* a call of calculate_speedups, compare_platforms or                      *)
(* calculate_energy_efficiency adds no key to and replaces no value of the *)
(* caller's dicts.                                                         *)
C6_InputsUnchanged ==
    [][/\ (script = "calculate_speedups" /\ pc = "call")
            => experiments' = experiments
       /\ (script = "compare_mac_graviton" /\ pc = "loaded")
            => mac_data' = mac_data /\ graviton_data' = graviton_data
       /\ (script = "calculate_energy_efficiency" /\ pc = "call")
            => enriched_experiments' = enriched_experiments]_vars

(* C7: every ratio that is 0.0 because its baseline is 0 is carried by a   *)
(* record with a low-confidence flag: a key besides the input columns and  *)
(* the derived metrics.                                                    *)
SpeedupKeys ==
    {"operation", "config", "scale", "num_sequences", "throughput_seqs_per_sec",
     "speedup_vs_naive"}

ComparisonKeys ==
    {"operation", "config", "scale", "num_sequences", "mac_throughput",
     "mac_speedup", "graviton_throughput", "graviton_speedup",
     "portability_ratio", "speedup_variance_pct", "graviton_vs_mac_throughput"}

C7_ZeroBaselineFlagged ==
    /\ \A exps \in SpeedupLists : \A i \in DOMAIN exps :
          LET nt == naive_throughput(exps)
              key == GroupKey(exps[i])
          IN  (key \in DOMAIN nt /\ nt[key] = Zero)
              => (DOMAIN exps[i]) \ SpeedupKeys # {}
    /\ (script = "compare_mac_graviton" /\ pc = "compared")
          => \A i \in DOMAIN comparison :
                (comparison[i].mac_speedup = Zero \/ comparison[i].mac_throughput = Zero)
                => (DOMAIN comparison[i]) \ ComparisonKeys # {}

(* C8: a CLI script invoked with the wrong number of positional arguments  *)
(* or with a required input path that does not exist prints a usage or     *)
(* diagnostic message and exits with a non-zero status, having read no     *)
(* data and created or modified no output file.                            *)
CliScripts == {"compare_mac_graviton", "analyze_composition", "statistical_analysis"}

ExpectedArgc ==
    CASE script = "compare_mac_graviton" -> 2
      [] script = "analyze_composition" -> 1
      [] OTHER -> 0

BadInvocation ==
    \/ argc # ExpectedArgc
    \/ \E i \in DOMAIN path_exists : ~path_exists[i]

Diagnostics == {"usage", "error_not_found", "warning_not_found", "traceback"}

C8_BadInvocationExitsBeforeWork ==
    (script \in CliScripts /\ pc # "main" /\ BadInvocation)
    => /\ exit_status # <<>> /\ exit_status # <<0>>
       /\ \E k \in DOMAIN (stdout \o stderr) : (stdout \o stderr)[k] \in Diagnostics
       /\ data_read = {}
       /\ outputs_written = {}

(* C9: a load in which some row fails coercion fails as a whole, returns   *)
(* no list, and its error identifies the offending row and column.         *)
RowFails(schema, row) ==
    \E k \in DOMAIN schema : ~CoerceOk(schema[k].type, row[schema[k].column])

FirstBadColumn(schema, row) ==
    schema[Min({k \in DOMAIN schema :
                    ~CoerceOk(schema[k].type, row[schema[k].column])})].column

C9_LoadFailsWholeNamingRowAndColumn ==
    (script \in Loaders /\ pc # "call")
    => LET schema == SchemaOf(script)
           bad == {i \in DOMAIN rows : RowFails(schema, rows[i])}
       IN  bad # {}
           => /\ pc = "raised"
              /\ loaded = <<>>
              /\ {"row", "column"} \subseteq DOMAIN raised_args
              /\ raised_args.row = Min(bad)
              /\ raised_args.column = FirstBadColumn(schema, rows[Min(bad)])

(* C10: load_data skips exactly the lines that begin with '[' and loads    *)
(* every other line with all of its fields as they are in the file, also   *)
(* when '[' occurs later in the line.                                      *)
BeginsWithMarker(line) == line[1][1] = "["

NotMarker(line) == ~BeginsWithMarker(line)

IntactRows(file_lines) ==
    LET kept == SelectSeq(file_lines, NotMarker)
    IN  [i \in DOMAIN kept |->
            [c \in {CompositionColumns[k] : k \in DOMAIN CompositionColumns} |->
                kept[i][CHOOSE k \in DOMAIN CompositionColumns :
                            CompositionColumns[k] = c]]]

C10_SkipsExactlyMarkerLines ==
    (script = "analyze_composition" /\ pc = "loaded") => df = IntactRows(lines)

(* C11: parse_powermetrics_log returns, in file order, exactly one sample   *)
(* per CPU Power line that has a parsed announcement line before it,       *)
(* stamped with the timestamp of the last parsed announcement before it;   *)
(* CPU Power lines before the first parsed announcement give no sample;    *)
(* the single-blank and the double-blank day field parse to the same       *)
(* timestamp.                                                              *)
ParsedAnnouncements(file_lines, i) ==
    {j \in 1..(i - 1) : /\ file_lines[j].kind = "announcement"
                        /\ parse_timestamp(file_lines[j].text).raised = "none"}

IsStampedPowerLine(file_lines, i) ==
    file_lines[i].kind = "cpu_power" /\ ParsedAnnouncements(file_lines, i) # {}

RECURSIVE ExpectedSamples(_, _)
ExpectedSamples(file_lines, i) ==
    IF i > Len(file_lines) THEN <<>>
    ELSE IF IsStampedPowerLine(file_lines, i)
         THEN <<[timestamp |->
                    parse_timestamp(
                        file_lines[Max(ParsedAnnouncements(file_lines, i))].text).value,
                 cpu_power_mw |-> <<FloatTable[file_lines[i].digits], 1>>]>>
              \o ExpectedSamples(file_lines, i + 1)
         ELSE ExpectedSamples(file_lines, i + 1)

C11_OneSamplePerStampedPowerLine ==
    (script = "parse_powermetrics_log" /\ pc = "returned")
    => /\ samples = ExpectedSamples(log_lines, 1)
       /\ \A i, j \in DOMAIN log_lines :
             (/\ log_lines[i].kind = "announcement"
              /\ log_lines[j].kind = "announcement"
              /\ Normalize(log_lines[i].text) = Normalize(log_lines[j].text)
              /\ parse_timestamp(log_lines[i].text).raised = "none")
             => parse_timestamp(log_lines[j].text) = parse_timestamp(log_lines[i].text)

(* C11 witness: a CPU Power line before any announcement, then a double-   *)
(* blank and a single-blank announcement, then a stamped CPU Power line.   *)
C11_Witness ==
    /\ script = "parse_powermetrics_log" /\ pc = "returned"
    /\ Len(samples) = 1
    /\ Len(log_lines) >= 3
    /\ log_lines[1].kind = "cpu_power"
    /\ log_lines[2].kind = "announcement"
    /\ log_lines[2].text # Normalize(log_lines[2].text)
    /\ log_lines[3].kind = "cpu_power"

(* C12: for every non-empty comparison list, the CSV that write_comparison  *)
(* writes holds every column load_comparison_csv reads, and reloading it   *)
(* gives one record per written record, in the same order, with the same   *)
(* value in every numeric field.                                           *)
C12_WriteReloadRoundTrip ==
    /\ (script = "compare_mac_graviton" /\ pc = "written" /\ comparison # <<>>)
          => /\ comparison_csv # None
             /\ SchemaColumns(ComparisonSchema)
                   \subseteq {comparison_csv.header[k] : k \in DOMAIN comparison_csv.header}
             /\ Len(comparison_csv.rows) = Len(comparison)
    /\ (script = "compare_mac_graviton" /\ pc \in {"reloaded", "reload_raised"})
          => /\ pc = "reloaded"
             /\ Len(loaded) = Len(comparison)
             /\ \A i \in DOMAIN loaded :
                   /\ \A c \in SchemaColumns(ComparisonSchema) :
                         loaded[i][c] = comparison[i][c]
                   /\ loaded[i].operation = comparison[i].operation
                   /\ loaded[i].config = comparison[i].config

(* C12 witness: two records written and reloaded, one of them with a       *)
(* negative variance that is no whole number.                              *)
C12_Witness ==
    /\ script = "compare_mac_graviton" /\ pc = "reloaded"
    /\ Len(loaded) = 2
    /\ \E i \in DOMAIN loaded :
          /\ loaded[i].speedup_variance_pct[1] < 0
          /\ loaded[i].speedup_variance_pct[2] > 1

(* C14: a script that writes to an output directory creates the directory, *)
(* missing parents included, when it does not exist: a missing output      *)
(* directory never makes extract_mac_baseline, compare_mac_graviton,       *)
(* analyze_amx or generate_publication_plots fail.                         *)
OutputDirScripts ==
    {"extract_mac_baseline", "compare_mac_graviton", "analyze_amx",
     "generate_publication_plots"}

FailedOnOutputDir ==
    /\ raised \in {"FileNotFoundError", "FileExistsError"}
    /\ "missing" \in DOMAIN raised_args
    /\ raised_args.missing = "output_dir"

C14_MissingOutputDirCreated ==
    script \in OutputDirScripts
    => /\ ~FailedOnOutputDir
       /\ (pc \in {"written", "output_dir_created"} /\ exit_status # <<1>>
           /\ (script = "compare_mac_graviton" => comparison # <<>>))
             => output_dir_exists

(* C15: the best row of a group is the first row, in input order, whose    *)
(* speedup_vs_1t is the group's maximum; Rule 3 gives 'default' unless     *)
(* p_cores or e_cores is strictly greater, and p_cores when p_cores and    *)
(* e_cores are equal.                                                      *)
FirstMaximum(frame, members) ==
    Min({i \in members :
            \A j \in members : ~FloatGt(frame[j].speedup_vs_1t, frame[i].speedup_vs_1t)})

C15_BestIsFirstMaximum ==
    (script = "analyze_parallel" /\ pc = "complete")
    => /\ \A op \in DOMAIN summary_best :
             summary_best[op] =
                FirstMaximum(parallel_df,
                             {i \in DOMAIN parallel_df : parallel_df[i].operation = op})
       /\ \A key \in DOMAIN rule2_best :
             rule2_best[key] =
                FirstMaximum(parallel_df,
                             {i \in DOMAIN parallel_df :
                                 /\ parallel_df[i].scale = key[1]
                                 /\ parallel_df[i].operation = key[2]
                                 /\ parallel_df[i].assignment = "default"})
       /\ \A op \in DOMAIN rule3 :
             LET d == AssignmentMean(parallel_df, op, "default")
                 p == AssignmentMean(parallel_df, op, "p_cores")
                 e == AssignmentMean(parallel_df, op, "e_cores")
             IN  /\ rule3[op] = "default" <=> (~FloatGt(p, d) /\ ~FloatGt(e, d))
                 /\ (FloatGt(p, d) /\ p = e) => rule3[op] = "p_cores"
                 /\ rule3[op] = "p_cores" => (FloatGt(p, d) /\ ~FloatGt(e, p))
                 /\ rule3[op] = "e_cores" => (FloatGt(e, d) /\ ~FloatGt(p, e))

(* C15 witness: the maximum of an operation is attained by its second and  *)
(* third row, and p_cores and e_cores tie above default.                   *)
C15_Witness ==
    /\ script = "analyze_parallel" /\ pc = "complete"
    /\ Len(parallel_df) = 3
    /\ "A" \in DOMAIN summary_best /\ summary_best["A"] = 2
    /\ parallel_df[3].operation = "A"
    /\ parallel_df[3].speedup_vs_1t = parallel_df[2].speedup_vs_1t
    /\ rule3["A"] = "p_cores"
    /\ AssignmentMean(parallel_df, "A", "p_cores")
          = AssignmentMean(parallel_df, "A", "e_cores")

(* C16: the model reported as best is the one with the highest             *)
(* cross-validated score, the first in the evaluation order (linear,       *)
(* polynomial, random forest, gradient boosting) among equals, and the     *)
(* prediction analysis uses that model.                                    *)
FirstMaxByCv(built) ==
    built[Min({k \in DOMAIN built :
                  \A j \in DOMAIN built : ~FloatGt(built[j].cv, built[k].cv)})].name

C16_BestIsHighestCrossValidated ==
    (script = "complexity_regression" /\ pc \in {"built", "predicted"})
    => /\ (\A k \in DOMAIN models : models[k].cv # NaN)
             => best_model_name = <<FirstMaxByCv(models)>>
       /\ pc = "predicted" => prediction_model = best_model_name

(* C17: with too few data points for a model (3 points, degree-2           *)
(* polynomial) the run fails with InsufficientDataError for that model     *)
(* only, the other models being fitted all the same; with 10 points every  *)
(* model reports a finite R2.                                              *)
ModelNames(built) == {built[k].name : k \in DOMAIN built}

C17_InsufficientDataConfinedToModel ==
    (/\ script = "complexity_regression" /\ pc \in {"exit", "built", "predicted"}
     /\ \A i \in DOMAIN df_filtered : df_filtered[i].scale_log10 # NaN)
    => /\ raised # "none"
            => /\ raised = "InsufficientDataError"
               /\ {"linear", "random_forest", "gradient_boosting"} \subseteq ModelNames(models)
       /\ Len(df_filtered) >= 2 * CvSplits
            => /\ raised = "none"
               /\ ModelNames(models) = {EvaluationOrder[k] : k \in DOMAIN EvaluationOrder}
               /\ \A k \in DOMAIN models : models[k].r2 # NaN

(* C20: a record whose scale label is outside the hard-coded scale set is  *)
(* dropped or misordered without failure: the speedup matrices of          *)
(* analyze_parallel, the speedup curves of analyze_amx and the run of      *)
(* complexity_regression on its encoded scales complete without raising.   *)
InScaleOrder(s) == \E k \in DOMAIN scale_order : scale_order[k] = s

HasUnknownScale ==
    \/ /\ script = "analyze_parallel"
       /\ \E i \in DOMAIN parallel_df : ~InScaleOrder(parallel_df[i].scale)
    \/ /\ script = "analyze_amx"
       /\ \E i \in DOMAIN amx_df : ~InScaleOrder(amx_df[i].scale)
    \/ /\ script = "complexity_regression"
       /\ \E i \in DOMAIN df_filtered : df_filtered[i].scale \notin DOMAIN scale_map

C20_UnknownScaleNeverFails ==
    (/\ HasUnknownScale
     /\ \/ script = "analyze_parallel" /\ pc \in {"matrices", "complete"}
        \/ script = "analyze_amx" /\ pc \in {"curves_saved", "exit"}
        \/ script = "complexity_regression" /\ pc \in {"built", "predicted", "exit"})
    => /\ raised = "none"
       /\ script = "analyze_parallel"
            => \A key \in DOMAIN speedup_matrices :
                  \A k \in DOMAIN speedup_matrices[key].columns :
                     InScaleOrder(speedup_matrices[key].columns[k])

(* C13: running the same report script twice on identical inputs gives     *)
(* identical output: the second run leaves every file as the first run     *)
(* left it, whatever was there before, and FINDINGS.md has its operations  *)
(* sorted, the scales of an operation sorted and the configs of a table in *)
(* the fixed order.                                                        *)
LexiconRank(text) == CHOOSE k \in DOMAIN Lexicon : Lexicon[k] = text

ConfigRank(config) == IF config \in DOMAIN config_order THEN config_order[config] ELSE 99

(* no line of one of the kinds lies between lines i and j *)
NoneBetween(doc, i, j, kinds) == \A k \in (i + 1)..(j - 1) : doc[k].kind \notin kinds

FindingsInOrder(doc) ==
    \A i, j \in DOMAIN doc :
        i < j =>
           /\ (doc[i].kind = "operation_heading" /\ doc[j].kind = "operation_heading")
                 => LexiconRank(doc[i].operation) < LexiconRank(doc[j].operation)
           /\ (/\ doc[i].kind = "scale_heading" /\ doc[j].kind = "scale_heading"
               /\ NoneBetween(doc, i, j, {"operation_heading"}))
                 => LexiconRank(doc[i].scale) < LexiconRank(doc[j].scale)
           /\ (/\ doc[i].kind = "table_row" /\ doc[j].kind = "table_row"
               /\ NoneBetween(doc, i, j, {"scale_heading"}))
                 => ConfigRank(doc[i].config) <= ConfigRank(doc[j].config)

C13_SecondRunSameOutput ==
    script = "pipeline"
    => /\ \A p \in DOMAIN procs :
             LET q == 3 - p
             IN  (/\ procs[p].script = procs[q].script
                  /\ Ended(procs[p]) /\ Ended(procs[q])
                  /\ procs[q].after_other)
                 => /\ procs[q].files_after = procs[p].files_after
                    /\ files = procs[p].files_after
       /\ files[FindingsPath(ComparisonPath)] # None
             => FindingsInOrder(files[FindingsPath(ComparisonPath)])

(* C13 witness: generate_graviton_findings has run twice, one run after    *)
(* the other, on a comparison of two operations listed out of order; the   *)
(* second run found the FINDINGS.md of the first.                          *)
C13_Witness ==
    /\ script = "pipeline"
    /\ procs[1].script = "generate_graviton_findings"
    /\ procs[2].script = "generate_graviton_findings"
    /\ procs[1].pc = "done" /\ procs[2].pc = "done"
    /\ procs[2].after_other
    /\ procs[1].files_after[FindingsPath(ComparisonPath)] # None
    /\ Len(procs[2].data) = 2
    /\ procs[2].data[1].operation = "gc_content"
    /\ procs[2].data[2].operation = "base_counting"

(* C18: two scripts can run at the same time without interfering: under    *)
(* every interleaving the output file of each ends with the content that   *)
(* script would write alone on the files the two runs started from.        *)
C18_OutputAsWriterAlone ==
    (/\ script = "pipeline"
     /\ procs[1].script # procs[2].script
     /\ Ended(procs[1]) /\ Ended(procs[2]))
    => \A p \in DOMAIN procs :
          files[OutputPath(procs[p].script)]
             = RunScript(procs[p].script, files0)[OutputPath(procs[p].script)]

(* C19: the scripts are order-independent: two scripts run one after the   *)
(* other leave the files that the same two scripts leave when run in the   *)
(* other order from the same initial files.                                *)
C19_EitherOrderSameFiles ==
    script = "pipeline"
    => \A p \in DOMAIN procs :
          LET q == 3 - p
          IN  (Ended(procs[p]) /\ Ended(procs[q]) /\ procs[q].after_other)
              => files = RunScripts(<<procs[q].script, procs[p].script>>, files0)

----------------------------------------------------------------------------
(* Properties of compare_platforms called on two loaded lists *)

(* a platform's own speedup of its record j against the naive baseline of   *)
(* the record's (operation, scale) group in the same file: the group's     *)
(* first naive record; 0.0 when the baseline's throughput is 0             *)
OwnSpeedup(file_rows, j) ==
    LET b == FirstNaiveIndex(file_rows, GroupKey(file_rows[j]))
        base == PyFloat(file_rows[b].throughput_seqs_per_sec)
    IN  IF Gt0(base)
        THEN PyDiv(PyFloat(file_rows[j].throughput_seqs_per_sec), base)
        ELSE Zero

(* the records of a platform's file that a joined row can stand for: same  *)
(* key, same throughput, in a group that has a naive baseline              *)
RecordsOf(file_rows, key, throughput) ==
    {j \in DOMAIN file_rows :
        /\ JoinKey(file_rows[j]) = key
        /\ PyFloat(file_rows[j].throughput_seqs_per_sec) = throughput
        /\ FirstNaiveIndex(file_rows, GroupKey(file_rows[j])) # 0}

(* the arithmetic of one joined row *)
RatioArithmetic(r) ==
    IF Gt0(r.mac_speedup)
    THEN /\ r.portability_ratio = PyDiv(r.graviton_speedup, r.mac_speedup)
         /\ r.speedup_variance_pct =
               PyMul(PySub(r.portability_ratio, One), Hundred)
    ELSE /\ r.portability_ratio = Zero
         /\ r.speedup_variance_pct = Zero

(* C21: in every row compare_platforms produces, portability_ratio is      *)
(* graviton_speedup / mac_speedup and speedup_variance_pct is              *)
(* (portability_ratio - 1) * 100 when mac_speedup > 0, both are 0.0        *)
(* otherwise, and the two speedups are each platform's own speedup against *)
(* its own naive baseline of the row's (operation, scale) group.           *)
C21_PortabilityRatioOfOwnSpeedups ==
    (script = "compare_mac_graviton" /\ pc = "compared")
    => \A i \in DOMAIN comparison :
          LET r == comparison[i]
              m == RecordsOf(mac_csv, JoinKey(r), r.mac_throughput)
              g == RecordsOf(graviton_csv, JoinKey(r), r.graviton_throughput)
          IN  /\ RatioArithmetic(r)
              /\ m # {} => \E j \in m : r.mac_speedup = OwnSpeedup(mac_csv, j)
              /\ g # {} => \E j \in g : r.graviton_speedup = OwnSpeedup(graviton_csv, j)

(* the Graviton records whose key occurs in the Mac data, in input order *)
HasMacMatch(g_row) == \E j \in DOMAIN mac_csv : JoinKey(mac_csv[j]) = JoinKey(g_row)

MatchedGraviton == SelectSeq(graviton_csv, HasMacMatch)

(* C23: compare_platforms is an inner join on (operation, config, scale):  *)
(* one row for each Graviton record whose key occurs in the Mac data, in   *)
(* Graviton input order, none for a record of either platform without a    *)
(* match, and never more rows than Graviton records.                       *)
C23_InnerJoinInGravitonOrder ==
    (script = "compare_mac_graviton" /\ pc = "compared")
    => /\ Len(comparison) = Len(MatchedGraviton)
       /\ Len(comparison) <= Len(graviton_csv)
       /\ \A i \in DOMAIN comparison :
             /\ JoinKey(comparison[i]) = JoinKey(MatchedGraviton[i])
             /\ comparison[i].num_sequences = MatchedGraviton[i].num_sequences
             /\ comparison[i].graviton_throughput =
                   PyFloat(MatchedGraviton[i].throughput_seqs_per_sec)
             /\ \E j \in DOMAIN mac_csv :
                   /\ JoinKey(mac_csv[j]) = JoinKey(comparison[i])
                   /\ PyFloat(mac_csv[j].throughput_seqs_per_sec) =
                         comparison[i].mac_throughput

(* C23 witness: two Graviton records join in their order (told apart by    *)
(* their throughputs) while a Mac record has no Graviton match.            *)
C23_Witness ==
    /\ script = "compare_mac_graviton" /\ pc = "compared"
    /\ Len(comparison) = 2 /\ Len(graviton_csv) = 2
    /\ comparison[1].graviton_throughput # comparison[2].graviton_throughput
    /\ \E j \in DOMAIN mac_csv :
          \A i \in DOMAIN graviton_csv : JoinKey(graviton_csv[i]) # JoinKey(mac_csv[j])

----------------------------------------------------------------------------
(* Properties of analyze_composition.calculate_speedups *)

BackendsOf(frame, key) ==
    {frame[i].backend : i \in {j \in DOMAIN frame : GroupKey(frame[j]) = key}}

(* the (operation, scale) pairs with a record of each of the three backends *)
CompletePairs(frame) ==
    {GroupKey(frame[i]) : i \in {j \in DOMAIN frame :
                                    Backends \subseteq BackendsOf(frame, GroupKey(frame[j]))}}

(* the throughput of the pair's first record of a backend *)
FirstThroughput(frame, key, backend) ==
    LET of_backend == {i \in DOMAIN frame :
                          GroupKey(frame[i]) = key /\ frame[i].backend = backend}
    IN  frame[Min(of_backend)].throughput_seqs_per_sec

ExpectedParallel(complexity) ==
    IF complexity[1] * 100 < 30 * complexity[2] THEN <<2, 1>>
    ELSE IF complexity[1] * 100 < 45 * complexity[2] THEN <<7, 2>>
    ELSE <<5, 1>>

(* C22: calculate_speedups of analyze_composition emits exactly one result *)
(* per (operation, scale) pair that has a naive, a neon and a neon_parallel*)
(* record and none for the other pairs; where the quotients are defined    *)
(* (naive and neon throughput > 0) composition_ratio is                    *)
(* (neon_parallel / naive) / ((neon / naive) * expected_parallel), with    *)
(* expected_parallel 2.0 below complexity 0.30, 3.5 from 0.30 and below    *)
(* 0.45, and 5.0 from 0.45.                                                *)
C22_OneResultPerCompletePair ==
    (script = "composition_calculate_speedups" /\ pc = "returned")
    => /\ Len(speedups) = Cardinality(CompletePairs(composition_frame))
       /\ {GroupKey(speedups[i]) : i \in DOMAIN speedups}
             = CompletePairs(composition_frame)
       /\ \A i \in DOMAIN speedups :
             LET key == GroupKey(speedups[i])
                 naive == FirstThroughput(composition_frame, key, "naive")
                 neon == FirstThroughput(composition_frame, key, "neon")
                 neon_parallel ==
                     FirstThroughput(composition_frame, key, "neon_parallel")
                 expected == ExpectedParallel(speedups[i].complexity)
             IN  /\ speedups[i].expected_parallel = expected
                 /\ (Gt0(naive) /\ Gt0(neon))
                       => speedups[i].composition_ratio =
                             PyDiv(PyDiv(neon_parallel, naive),
                                   PyMul(PyDiv(neon, naive), expected))

(* C22 witness: two results, one of them at the complexity threshold 0.30  *)
(* with a ratio that is not 1.0, while a third record's duplicate changes  *)
(* nothing.                                                                *)
C22_Witness ==
    /\ script = "composition_calculate_speedups" /\ pc = "returned"
    /\ Len(speedups) = 2
    /\ Len(composition_frame) > 6
    /\ \E i \in DOMAIN speedups :
          /\ speedups[i].complexity = <<3, 10>>
          /\ speedups[i].expected_parallel = <<7, 2>>
          /\ speedups[i].composition_ratio = <<4, 7>>

(* C24: a group whose naive throughput is exactly 0 yields speedups and a  *)
(* composition_ratio equal to 0.0, never an infinite or not-a-number value *)
(* and never an exception.                                                 *)
C24_ZeroNaiveGivesZero ==
    /\ script = "composition_calculate_speedups" => raised = "none"
    /\ (script = "composition_calculate_speedups" /\ pc = "returned")
       => \A i \in DOMAIN speedups :
             FirstThroughput(composition_frame, GroupKey(speedups[i]), "naive") = Zero
             => /\ speedups[i].speedup_neon = Zero
                /\ speedups[i].speedup_neon_parallel = Zero
                /\ speedups[i].composition_ratio = Zero

----------------------------------------------------------------------------
(* Property of parse_powermetrics_log after an unparseable announcement *)

Unparseable(line) ==
    line.kind = "announcement" /\ parse_timestamp(line.text).raised # "none"

Parseable(line) ==
    line.kind = "announcement" /\ parse_timestamp(line.text).raised = "none"

SampleOf(announcement, power_line) ==
    [timestamp |-> parse_timestamp(announcement.text).value,
     cpu_power_mw |-> <<FloatTable[power_line.digits], 1>>]

(* the lists of samples that record no CPU Power line under an             *)
(* announcement older than an unparseable one: last is the index of the    *)
(* last announcement before line i, 0 if none.  A CPU Power line after an  *)
(* unparseable announcement is dropped, or waits for the next announcement *)
(* that parses and takes its timestamp.                                    *)
RECURSIVE SamplesWithoutStale(_, _, _)
SamplesWithoutStale(file_lines, i, last) ==
    IF i > Len(file_lines) THEN {<<>>}
    ELSE LET line == file_lines[i]
             rest == SamplesWithoutStale(file_lines, i + 1,
                        IF line.kind = "announcement" THEN i ELSE last)
             later == {j \in (i + 1)..Len(file_lines) : Parseable(file_lines[j])}
         IN  IF line.kind # "cpu_power" \/ last = 0 THEN rest
             ELSE IF Parseable(file_lines[last])
             THEN {<<SampleOf(file_lines[last], line)>> \o s : s \in rest}
             ELSE rest \cup
                  (IF later = {} THEN {}
                   ELSE {<<SampleOf(file_lines[Min(later)], line)>> \o s : s \in rest})

(* C27: after an announcement line whose timestamp cannot be parsed, no    *)
(* CPU Power sample is recorded under an earlier announcement's timestamp: *)
(* the power lines that follow it are dropped or wait for the next         *)
(* announcement that parses.                                               *)
C27_NoSampleUnderStaleTimestamp ==
    (script = "parse_powermetrics_log" /\ pc = "returned")
    => samples \in SamplesWithoutStale(log_lines, 1, 0)

----------------------------------------------------------------------------
(* Properties of calculate_energy_efficiency on degenerate measurements *)

EfficiencyKeys ==
    {"time_speedup_vs_naive", "energy_speedup_vs_naive", "energy_efficiency"}

(* C26: calculate_energy_efficiency never raises a division fault and      *)
(* returns every input experiment exactly once; for experiments with       *)
(* non-negative loop_duration_s, iterations and energy_per_seq_uwh         *)
(* (iterations == 0 and zero energy included) each of                      *)
(* time_speedup_vs_naive, energy_speedup_vs_naive and energy_efficiency is *)
(* a finite number, 0.0 whenever its denominator is 0.                     *)
C26_EfficiencyNeverFaults ==
    /\ script = "calculate_energy_efficiency" => raised = "none"
    /\ (script = "calculate_energy_efficiency" /\ pc = "returned")
       => /\ Len(result) = Len(enriched_experiments)
          /\ {result[k] : k \in DOMAIN result} = DOMAIN enriched_experiments
          /\ \A i \in DOMAIN enriched_experiments :
                LET e == enriched_experiments[i]
                IN  /\ EfficiencyKeys \subseteq DOMAIN e
                    /\ \A key \in EfficiencyKeys : ~IsFault(e[key])
                    /\ (e.config # "naive" /\ e.energy_per_seq_uwh = Zero)
                          => e.energy_speedup_vs_naive = Zero
                    /\ (e.config # "naive" /\ e.energy_speedup_vs_naive = Zero)
                          => e.energy_efficiency = Zero

(* C25: every CSV that parse_powermetrics writes (calculate_energy_        *)
(* efficiency, then save_enriched_csv) is loaded by load_enriched_csv      *)
(* without an exception: each coerced column is present and holds the text *)
(* of a number in every row, the rows of groups without a naive record     *)
(* included.                                                               *)
C25_EnrichedCsvLoads ==
    (script = "parse_powermetrics" /\ pc = "saved" /\ enriched_csv # None)
        => /\ load_enriched_csv(enriched_csv).raised = "none"
           /\ \A i \in DOMAIN enriched_csv.rows :
                 \A k \in DOMAIN EnrichedSchema :
                    float_of_text(enriched_csv.rows[i][EnrichedSchema[k].column]).raised
                        = "none"

(* C28: generate_power_findings.generate_findings, once it has opened      *)
(* FINDINGS.md, writes the whole document and returns, whatever list       *)
(* load_enriched_csv returned.                                             *)
C28_PowerFindingsComplete ==
    power_findings # None
        => /\ raised = "none"
           /\ pc = "generated"
           /\ power_findings[Len(power_findings)].kind = "generated"

(* C29: in the parallel-AMX scaling loop of analyze_amx every operation's  *)
(* scale labels are looked up in the dict built from scale_order, so with  *)
(* two or more operations that have parallel_amx rows figure 3 is saved,   *)
(* one line per operation with x positions 0..5, and the script goes on to *)
(* the summary files.                                                      *)
ParallelAmxOperations ==
    {amx_df[i].operation : i \in {j \in DOMAIN amx_df : amx_df[j].backend = "parallel_amx"}}

C29_ScalingLoopKeepsMapping ==
    (/\ script = "analyze_amx"
     /\ pc \in {"scaling_saved", "complete", "exit"}
     /\ Cardinality(ParallelAmxOperations) >= 2)
    => /\ raised \notin {"TypeError", "KeyError"}
       /\ "parallel_amx_scaling.png" \in outputs_written
       /\ Len(parallel_amx_lines) = Cardinality(UniqueOperations(amx_df))
       /\ \A k \in DOMAIN parallel_amx_lines :
             \A j \in DOMAIN parallel_amx_lines[k].x :
                parallel_amx_lines[k].x[j] \in 0..(Len(scale_order) - 1)

(* C30: extract_mac_baseline writes exactly the input rows whose operation *)
(* is base_counting, gc_content or quality_aggregation, whose config is    *)
(* naive, neon or neon_4t and whose scale is Medium or Large, unchanged    *)
(* and in input order; run on its own output it writes that output again;  *)
(* and when no row matches it leaves the output file as it was.            *)
RECURSIVE BaselineRowsFrom(_, _)
BaselineRowsFrom(file_rows, i) ==
    IF i > Len(file_rows) THEN <<>>
    ELSE LET row == file_rows[i]
             rest == BaselineRowsFrom(file_rows, i + 1)
         IN  IF /\ row.operation \in {"base_counting", "gc_content", "quality_aggregation"}
                /\ row.config \in {"naive", "neon", "neon_4t"}
                /\ row.scale \in {"Medium", "Large"}
             THEN <<row>> \o rest
             ELSE rest

ExtractStep ==
    /\ script = "extract_mac_baseline" /\ pc = "main" /\ pc' = "written"
    /\ argc = 1 /\ path_exists[1]

ExtractAgainStep ==
    script = "extract_mac_baseline" /\ pc = "written" /\ pc' = "rewritten"

C30_BaselineIsTheFilteredInput ==
    [][/\ ExtractStep =>
            IF BaselineRowsFrom(power_csv, 1) = <<>>
            THEN baseline_csv' = baseline_csv
            ELSE baseline_csv' = [header |-> PilotFieldnames,
                                  rows |-> BaselineRowsFrom(power_csv, 1)]
       /\ ExtractAgainStep => baseline_csv' = baseline_csv]_vars

C30_Witness ==
    /\ script = "extract_mac_baseline" /\ pc = "rewritten"
    /\ Len(baseline_csv.rows) >= 2
    /\ Len(power_csv) > Len(baseline_csv.rows)
    /\ baseline_csv.rows = BaselineRowsFrom(power_csv, 1)

====
